---------------------------- MODULE Spec2Model ----------------------------
(***************************************************************************)
(* A model of scripts/build_site.py of containerized-quartz-for-teachers:  *)
(* the frontmatter rewriter (process_frontmatter), the content merge of    *)
(* build_section_site, and the textual patches of the Quartz artifacts.    *)
(*                                                                         *)
(* and of the prompts of scripts/setup_course.py.                          *)
(*                                                                         *)
(* Nine specifications share the module:                                   *)
(*   SpecFrontmatter  process_frontmatter applied to one file              *)
(*   SpecMerge        build_section_site's content merge over a course     *)
(*   SpecPatch        the patch functions applied to one artifact          *)
(*   SpecSetup        the list prompts of setup_course                     *)
(*   SpecEmoji        prompt_single_emoji                                  *)
(*   SpecBuild        build_section_site step by step                      *)
(*   SpecFooter       inject_custom_footer_components on its two files     *)
(*   SpecSections     prompt_section_numbers over runs of the wizard       *)
(*   SpecBackup       the backup of setup_course and the steps after it    *)
(* Each leaves the variables of the others unchanged.                      *)
(***************************************************************************)
EXTENDS Integers, Sequences, FiniteSets, TLC

VARIABLES
    \* ---- process_frontmatter on one file (SpecFrontmatter)
    fmPath,          \* the file's path (its suffix decides Markdown or not)
    fmFile,          \* the file's content now
    fmBefore,        \* the file's content before the last call
    fmSection,       \* section_number of the last call, 0 before any call
    \* ---- the course on disk and one section's output (SpecMerge)
    courseDir,       \* files of /teaching/courses/<code> outside sectionN
    sectionDir,      \* files of /teaching/courses/<code>/section<N>
    config,          \* course_config.json
    section_number,  \* the --section argument of the builds followed
    content,         \* .merged_output/section<N>/content
    dropped,         \* TRUE when the last build discarded a file of the previous content
    fresh,           \* TRUE when no source or config edit followed the last build
    printed,         \* what the merge of the last build printed, {} once a source changed
    \* ---- one artifact of the output directory under the patches (SpecPatch)
    artifact,        \* the file followed: its name
    disk,            \* the text of the file on disk
    diskBefore,      \* the text of the file before the last call
    lastOp,          \* the patch function called last, "none" before any call
    lastArg,         \* the arguments of that call
    reported,        \* the value of `changed` at the end of that call, where it has one
    patches,         \* the number of calls so far
    \* ---- the course configuration under the setup wizard (SpecSetup)
    saved_config,    \* course_config.json as setup_course.py left it
    \* ---- one header-emoji prompt of the wizard (SpecEmoji)
    emojiChoice,     \* what is typed at the menu prompt
    emojiCustom,     \* what is typed at the custom prompt, when it is shown
    emojiResult,     \* how prompt_single_emoji ended
    \* ---- build_section_site as a sequence of steps (SpecBuild)
    tree,            \* which directories and files of the course exist
    treeBefore,      \* tree before the last call
    course_config,   \* the values of course_config.json the build reads
    quartz,          \* what the files of the section's scaffold hold
    ran,             \* the steps the last call executed, in order
    outcome,         \* how the last call ended, "none" before any call
    buildArgs,       \* the arguments of the last call
    fault,           \* the failure met by one step of the last call
    \* ---- the two files of inject_custom_footer_components (SpecFooter)
    layoutFile,      \* quartz.layout.ts: whether it exists, and its text
    footerFile,      \* quartz/components/Footer.tsx: whether it exists, and its text
    footerBefore,    \* the two files before the last call
    footer_html,     \* the footer_html argument of the last call
    footerOutcome,   \* how the last call ended, "none" before any call
    injections,      \* the number of calls so far
    \* ---- the section-number prompt over runs of the wizard (SpecSections)
    saved_section_numbers,  \* section_numbers of the saved course_config.json, <<>> without one
    num_sections,    \* the answer to "How many sections" of the last run
    entries,         \* what was typed at the prompt in the last run, in order
    section_numbers, \* the list prompt_section_numbers returned in the last run
    \* ---- one course folder over runs of setup_course (SpecBackup)
    course_path,     \* /teaching/courses/<code>: whether it exists, and its files
    at_start,        \* course_path when the run under way (or the last run) began
    zip_file,        \* the archive that run wrote under _backups, if it wrote one
    no_backup,       \* the --no-backup flag of that run
    position,        \* the statement of setup_course the run has reached
    mutated,         \* TRUE once that run created or changed something under course_path
    backup_warning   \* TRUE once that run printed the backup warning

mergeVars == <<courseDir, sectionDir, config, section_number, content, dropped, fresh, printed>>
fmVars == <<fmPath, fmFile, fmBefore, fmSection>>
patchVars == <<artifact, disk, diskBefore, lastOp, lastArg, reported, patches>>
setupVars == <<saved_config>>
emojiVars == <<emojiChoice, emojiCustom, emojiResult>>
buildVars == <<tree, treeBefore, course_config, quartz, ran, outcome, buildArgs, fault>>
footerVars == <<layoutFile, footerFile, footerBefore, footer_html, footerOutcome, injections>>
sectionsVars == <<saved_section_numbers, num_sections, entries, section_numbers>>
backupVars == <<course_path, at_start, zip_file, no_backup, position, mutated, backup_warning>>
vars == <<fmVars, mergeVars, patchVars, setupVars, emojiVars, buildVars, footerVars, sectionsVars, backupVars>>

\* Section numbers of the course that the model follows.
MaxSection == 2
Sections == 1..MaxSection

(***************************************************************************)
(* Documents.  A file is a record                                          *)
(*   ok    TRUE when frontmatter.load parses its metadata header           *)
(*   fmt   "original" as the teacher wrote it, "dumped" once               *)
(*         frontmatter.dumps serialised it back                            *)
(*   meta  the metadata, a function from keys to values                    *)
(* A key is the text stem ++ digits(num) ++ rest, num = -1 for no digits,  *)
(* so "draftSection2" is [stem "draftSection", num 2, rest ""].            *)
(***************************************************************************)
Key(stem, num, rest) == [stem |-> stem, num |-> num, rest |-> rest]
PlainKey(stem) == Key(stem, -1, "")

\* f"draftSection{section_number}" and f"createdSection{section_number}"
draft_key(n) == Key("draftSection", n, "")
created_key(n) == Key("createdSection", n, "")

\* re.match(r"draftSection\d+", key) or re.match(r"createdSection\d+", key):
\* anchored at the start only, at least one digit, anything may follow.
IsSectionQualified(key) ==
    /\ key.stem \in {"draftSection", "createdSection"}
    /\ key.num >= 0

\* file_path.suffix.lower()
Lower(suffix) == IF suffix = ".MD" THEN ".md" ELSE suffix

\* post[key] = value
SetItem(post, key, value) ==
    [k \in DOMAIN post \cup {key} |-> IF k = key THEN value ELSE post[k]]

\* The deletion loop of process_frontmatter: every section-qualified key goes.
DeleteSectionKeys(post) ==
    [k \in {k \in DOMAIN post : ~IsSectionQualified(k)} |-> post[k]]

\* A plausible slip: only the target section's keys are deleted.
DeleteTargetKeysOnly(post, n) ==
    [k \in {k \in DOMAIN post : k \notin {draft_key(n), created_key(n)}} |-> post[k]]

\* Mutant: the canonical fields are set, only section n's keys are removed.
RewriteMetaTargetOnly(post, n) ==
    LET p1 == IF draft_key(n) \in DOMAIN post
              THEN SetItem(post, PlainKey("draft"), post[draft_key(n)]) ELSE post
        p2 == IF created_key(n) \in DOMAIN p1
              THEN SetItem(p1, PlainKey("created"), p1[created_key(n)]) ELSE p1
    IN DeleteTargetKeysOnly(p2, n)

\* The body of process_frontmatter once the header parsed.
RewriteMeta(post, n) ==
    LET p1 == IF draft_key(n) \in DOMAIN post
              THEN SetItem(post, PlainKey("draft"), post[draft_key(n)]) ELSE post
        p2 == IF created_key(n) \in DOMAIN p1
              THEN SetItem(p1, PlainKey("created"), p1[created_key(n)]) ELSE p1
    IN DeleteSectionKeys(p2)

\* Mutant: no early return for an unparsable header, the file is rewritten.
process_frontmatter_no_skip(file_path, file, n) ==
    IF Lower(file_path.suffix) # ".md" THEN file
    ELSE [file EXCEPT !.ok = TRUE, !.fmt = "dumped", !.meta = RewriteMeta(file.meta, n)]

\* process_frontmatter(file_path, section_number) as the new content of the
\* file: unchanged for a non-Markdown suffix and for a header that
\* frontmatter.load rejects, otherwise the rewritten metadata, serialised by
\* frontmatter.dumps.
process_frontmatter(file_path, file, n) ==
    IF Lower(file_path.suffix) # ".md" THEN file
    ELSE IF ~file.ok THEN file
    ELSE [file EXCEPT !.fmt = "dumped", !.meta = RewriteMeta(file.meta, n)]


(***************************************************************************)
(* SpecFrontmatter: process_frontmatter applied to one file, for every     *)
(* file over a small universe of keys.                                     *)
(***************************************************************************)
\* The keys a file may carry: the canonical ones, one unrelated key, the
\* section-qualified ones, a key with no digits after the stem and one with
\* text after the digits.
FmKeys ==
    {PlainKey("draft"), PlainKey("created"), PlainKey("title"),
     PlainKey("draftSection"), Key("draftSection", 1, "x")}
    \cup {draft_key(k) : k \in Sections}
    \cup {created_key(k) : k \in Sections}

\* The value a key holds in the files of the model: it names the key it was
\* written under, so a value copied from another key is told apart.
ValueAt(key) == [under |-> key.stem, n |-> key.num, tail |-> key.rest]

FmMetas == {[k \in K |-> ValueAt(k)] : K \in SUBSET FmKeys}
FmFiles == {[ok |-> o, fmt |-> "original", meta |-> m] : o \in BOOLEAN, m \in FmMetas}
FmPaths == {[dir |-> "", name |-> "note", suffix |-> s] : s \in {".md", ".MD", ".txt"}}

\* The merge variables while a specification does not use them.
MergeIdle ==
    /\ courseDir = <<>> /\ sectionDir = <<>> /\ config = <<>>
    /\ section_number = 0 /\ content = <<>> /\ dropped = FALSE /\ fresh = FALSE
    /\ printed = {}

FmIdle == fmPath = <<>> /\ fmFile = <<>> /\ fmBefore = <<>> /\ fmSection = 0
\* No course_config.json yet.
NoConfig ==
    [exists |-> FALSE, shared_folders |-> <<>>, shared_files |-> <<>>,
     per_section_folders |-> <<>>, per_section_files |-> <<>>,
     hidden |-> <<>>, expandable |-> <<>>]
SetupIdle == saved_config = NoConfig
EmojiIdle == emojiChoice = <<>> /\ emojiCustom = <<>> /\ emojiResult = <<>>
BuildIdle ==
    /\ tree = <<>> /\ treeBefore = <<>> /\ course_config = <<>> /\ quartz = <<>>
    /\ ran = <<>> /\ outcome = "none" /\ buildArgs = <<>> /\ fault = <<>>
PatchIdle ==
    /\ artifact = "" /\ disk = <<>> /\ diskBefore = <<>>
    /\ lastOp = "none" /\ lastArg = <<>>
    /\ reported = FALSE /\ patches = 0

FooterIdle ==
    /\ layoutFile = <<>> /\ footerFile = <<>> /\ footerBefore = <<>>
    /\ footer_html = <<>> /\ footerOutcome = "none" /\ injections = 0

SectionsIdle ==
    /\ saved_section_numbers = <<>> /\ num_sections = 0
    /\ entries = <<>> /\ section_numbers = <<>>

BackupIdle ==
    /\ course_path = <<>> /\ at_start = <<>> /\ zip_file = <<>>
    /\ no_backup = FALSE /\ position = "" /\ mutated = FALSE /\ backup_warning = FALSE

InitFrontmatter ==
    /\ fmPath \in FmPaths
    /\ fmFile \in FmFiles
    /\ fmBefore = fmFile
    /\ fmSection = 0
    /\ MergeIdle
    /\ PatchIdle
    /\ SetupIdle
    /\ EmojiIdle
    /\ BuildIdle
    /\ FooterIdle
    /\ SectionsIdle
    /\ BackupIdle

\* One call process_frontmatter(fmPath, n).
ProcessFrontmatter(n) ==
    /\ fmBefore' = fmFile
    /\ fmFile' = process_frontmatter(fmPath, fmFile, n)
    /\ fmSection' = n
    /\ UNCHANGED <<fmPath, mergeVars, patchVars, setupVars, emojiVars, buildVars, footerVars, sectionsVars, backupVars>>

NextFrontmatter == \E n \in Sections : ProcessFrontmatter(n)

SpecFrontmatter == InitFrontmatter /\ [][NextFrontmatter]_vars

\* The file is Markdown with a header that parses, and a call has been made.
FmRewritten == fmSection # 0 /\ Lower(fmPath.suffix) = ".md" /\ fmBefore.ok

Path(dir, name, suffix) == [dir |-> dir, name |-> name, suffix |-> suffix]
EmptyDir == [p \in {} |-> 0]
IndexMd == Path("", "index", ".md")

\* shutil.copy2(src, dest): the destination holds the source's content,
\* replacing what was there.
copy2(dir, dest, file) ==
    [p \in DOMAIN dir \cup {dest} |-> IF p = dest THEN file ELSE dir[p]]

\* The files of directory dir below top-level folder `folder` (os.walk).
Walk(dir, folder) == {p \in DOMAIN dir : p.dir = folder}

\* Mutant: the previous content folder is kept.
ClearContentKeep(dir) == dir

\* shutil.rmtree(content_root) when it exists, then content_root.mkdir().
ClearContent(dir) == EmptyDir

\* Lines 1093-1098: the section's index.md is copied first, then rewritten.
CopySectionIndex(out, section, n) ==
    IF IndexMd \in DOMAIN section
    THEN copy2(out, IndexMd, process_frontmatter(IndexMd, section[IndexMd], n))
    ELSE out

\* Lines 1105-1113 for one shared folder: every file of the walk is copied to
\* the same relative path and rewritten.
CopySharedFolder(out, course, folder, n) ==
    [p \in DOMAIN out \cup Walk(course, folder) |->
        IF p \in Walk(course, folder)
        THEN process_frontmatter(p, course[p], n)
        ELSE out[p]]

\* Lines 1103-1113: the shared folders in configured order.
RECURSIVE CopySharedFolders(_, _, _, _)
CopySharedFolders(out, course, folders, n) ==
    IF folders = <<>> THEN out
    ELSE CopySharedFolders(CopySharedFolder(out, course, Head(folders), n),
                           course, Tail(folders), n)

\* Lines 1116-1122: the shared files in configured order, each only when it
\* exists.
RECURSIVE CopySharedFiles(_, _, _, _)
CopySharedFiles(out, course, files, n) ==
    IF files = <<>> THEN out
    ELSE LET f == Head(files)
             next == IF f \in DOMAIN course
                     THEN copy2(out, f, process_frontmatter(f, course[f], n))
                     ELSE out
         IN CopySharedFiles(next, course, Tail(files), n)

\* Lines 1126-1133 for one per-section folder that exists:
\* copytree(dirs_exist_ok=True) overwrites the files it brings and keeps the
\* others, then every file now below the destination is rewritten again.
CopySectionFolder(out, section, folder, n) ==
    IF Walk(section, folder) = {} THEN out
    ELSE LET copied == [p \in DOMAIN out \cup Walk(section, folder) |->
                           IF p \in Walk(section, folder) THEN section[p] ELSE out[p]]
         IN [p \in DOMAIN copied |->
                IF p.dir = folder THEN process_frontmatter(p, copied[p], n)
                ELSE copied[p]]

\* Lines 1125-1133: the per-section folders in configured order.
RECURSIVE CopySectionFolders(_, _, _, _)
CopySectionFolders(out, section, folders, n) ==
    IF folders = <<>> THEN out
    ELSE CopySectionFolders(CopySectionFolder(out, section, Head(folders), n),
                            section, Tail(folders), n)

\* Lines 1136-1142: the per-section files in configured order.
RECURSIVE CopySectionFiles(_, _, _, _)
CopySectionFiles(out, section, files, n) ==
    IF files = <<>> THEN out
    ELSE LET f == Head(files)
             next == IF f \in DOMAIN section
                     THEN copy2(out, f, process_frontmatter(f, section[f], n))
                     ELSE out
         IN CopySectionFiles(next, section, Tail(files), n)

\* Mutant: the per-section folders are merged before the shared folders.
MergeContentSectionFirst(old, course, section, cfg, n) ==
    LET c0 == ClearContent(old)
        c1 == CopySectionIndex(c0, section, n)
        c2 == CopySectionFolders(c1, section, cfg.per_section_folders, n)
        c3 == CopySharedFolders(c2, course, cfg.shared_folders, n)
        c4 == CopySharedFiles(c3, course, cfg.shared_files, n)
    IN CopySectionFiles(c4, section, cfg.per_section_files, n)

\* Lines 1086-1142 of build_section_site: the content folder after the
\* merge, from its previous state `old`.
MergeContent(old, course, section, cfg, n) ==
    LET c0 == ClearContent(old)
        c1 == CopySectionIndex(c0, section, n)
        c2 == CopySharedFolders(c1, course, cfg.shared_folders, n)
        c3 == CopySharedFiles(c2, course, cfg.shared_files, n)
        c4 == CopySectionFolders(c3, section, cfg.per_section_folders, n)
    IN CopySectionFiles(c4, section, cfg.per_section_files, n)


\* One line printed by the merge loops of build_section_site: `warning` is
\* whether it starts with the warning sign, folder and file name its item.
Msg(warning, text, folder, file) ==
    [warning |-> warning, text |-> text, folder |-> folder, file |-> file]
NoFile == Path("", "", "")

\* Lines 1093-1142: what build_section_site itself prints while it merges.
\* The walk of a shared folder prints "Processing" whether the folder exists
\* or not; the other three loops print only under `if src.exists()`.
MergePrints(course, section, cfg, n) ==
    {IF IndexMd \in DOMAIN section
     THEN Msg(FALSE, "Copied section index.md to content/index.md", "", IndexMd)
     ELSE Msg(TRUE, "Section index.md not found", "", IndexMd)}
    \cup {Msg(FALSE, "Processing", cfg.shared_folders[i], NoFile) :
             i \in 1..Len(cfg.shared_folders)}
    \cup {Msg(FALSE, "Copied shared file", "", cfg.shared_files[i]) :
             i \in {j \in 1..Len(cfg.shared_files) : cfg.shared_files[j] \in DOMAIN course}}
    \cup {Msg(FALSE, "Copied per-section folder", cfg.per_section_folders[i], NoFile) :
             i \in {j \in 1..Len(cfg.per_section_folders) :
                        Walk(section, cfg.per_section_folders[j]) # {}}}
    \cup {Msg(FALSE, "Copied per-section file", "", cfg.per_section_files[i]) :
             i \in {j \in 1..Len(cfg.per_section_files) :
                        cfg.per_section_files[j] \in DOMAIN section}}


(***************************************************************************)
(* SpecMerge: a teacher edits the course and its configuration and builds  *)
(* one section again and again.  The course directory, the section         *)
(* directory and course_config.json exist throughout, so the early returns *)
(* of lines 970-978 are not taken.                                         *)
(***************************************************************************)
\* The files the course may hold outside the section directories: two
\* files of folder F and an index.md of its own.
CourseSlots == {Path("F", "x", ".md"), Path("F", "y", ".md"), IndexMd}
\* The files the section directory may hold: its index.md, a file of its
\* own folder F with the name of a shared one, and a non-Markdown file.
SectionSlots == {IndexMd, Path("F", "x", ".md"), Path("", "n", ".txt")}

\* The content of each source file: every file names its origin in title and
\* carries keys of both sections; F/y.md has a header that does not parse.
SourceFile(origin, p) ==
    [ok |-> ~(origin = "course" /\ p.name = "y"),
     fmt |-> "original",
     meta |-> [k \in {PlainKey("title"), PlainKey("draft")}
                      \cup {draft_key(j) : j \in Sections}
                      \cup {created_key(j) : j \in Sections}
               |-> IF k = PlainKey("title")
                   THEN [under |-> origin, n |-> 0, tail |-> p.name]
                   ELSE ValueAt(k)]]

Configs ==
    [shared_folders : {<<>>, <<"F">>},
     shared_files : {<<>>, <<IndexMd>>},
     per_section_folders : {<<>>, <<"F">>},
     per_section_files : {<<>>, <<Path("", "n", ".txt")>>}]

InitMerge ==
    /\ courseDir = [p \in CourseSlots |-> SourceFile("course", p)]
    /\ sectionDir = [p \in SectionSlots |-> SourceFile("section", p)]
    /\ config \in Configs
    /\ section_number \in Sections
    /\ content = EmptyDir
    /\ dropped = FALSE
    /\ fresh = FALSE
    /\ printed = {}
    /\ FmIdle
    /\ PatchIdle
    /\ SetupIdle
    /\ EmojiIdle
    /\ BuildIdle
    /\ FooterIdle
    /\ SectionsIdle
    /\ BackupIdle

\* The teacher adds or removes a file of the course.
EditCourse ==
    /\ \E p \in CourseSlots :
          courseDir' = IF p \in DOMAIN courseDir
                       THEN [q \in DOMAIN courseDir \ {p} |-> courseDir[q]]
                       ELSE copy2(courseDir, p, SourceFile("course", p))
    /\ fresh' = FALSE
    /\ printed' = {}
    /\ UNCHANGED <<sectionDir, config, section_number, content, dropped, fmVars, patchVars, setupVars, emojiVars, buildVars, footerVars, sectionsVars, backupVars>>

\* The teacher adds or removes a file of the section directory.
EditSection ==
    /\ \E p \in SectionSlots :
          sectionDir' = IF p \in DOMAIN sectionDir
                        THEN [q \in DOMAIN sectionDir \ {p} |-> sectionDir[q]]
                        ELSE copy2(sectionDir, p, SourceFile("section", p))
    /\ fresh' = FALSE
    /\ printed' = {}
    /\ UNCHANGED <<courseDir, config, section_number, content, dropped, fmVars, patchVars, setupVars, emojiVars, buildVars, footerVars, sectionsVars, backupVars>>

\* setup_course.py writes another configuration: one of the four lists
\* changes.
EditConfig ==
    /\ \E c \in Configs :
          /\ Cardinality({f \in DOMAIN c : c[f] # config[f]}) = 1
          /\ config' = c
    /\ fresh' = FALSE
    /\ printed' = {}
    /\ UNCHANGED <<courseDir, sectionDir, section_number, content, dropped, fmVars, patchVars, setupVars, emojiVars, buildVars, footerVars, sectionsVars, backupVars>>

\* Mutant: process_frontmatter is handed the source path of each copy, so
\* the files of the source tree are rewritten where they lie.
SourceTreeRewritten(dir, n) ==
    [p \in DOMAIN dir |-> process_frontmatter(p, dir[p], n)]

\* A source tree after the merge for section n.  Every shutil.copy2 and
\* copytree of lines 1093-1145 has the source tree as its first argument
\* and a path below output_dir as its second, and process_frontmatter is
\* handed the destination: the tree is read, never written.
SourceTreeAfterMerge(dir, n) == dir

\* build_section_site(course_code, section_number, ...): the content merge.
BuildSectionSite ==
    /\ content' = MergeContent(content, courseDir, sectionDir, config, section_number)
    /\ dropped' = (DOMAIN content \ DOMAIN content' # {})
    /\ fresh' = TRUE
    /\ printed' = MergePrints(courseDir, sectionDir, config, section_number)
    /\ courseDir' = SourceTreeAfterMerge(courseDir, section_number)
    /\ sectionDir' = SourceTreeAfterMerge(sectionDir, section_number)
    /\ UNCHANGED <<config, section_number, fmVars, patchVars, setupVars, emojiVars, buildVars, footerVars, sectionsVars, backupVars>>

NextMerge == EditCourse \/ EditSection \/ EditConfig \/ BuildSectionSite

SpecMerge == InitMerge /\ [][NextMerge]_vars

\* Membership in a configured list.
InList(x, list) == \E i \in 1..Len(list) : list[i] = x

(* C1: when a shared folder and a per-section folder of the configuration  *)
(* both supply a file at relative path X, the merged content's X is the    *)
(* per-section file rewritten for the section, not the shared one.         *)
C1_MergePrecedence ==
    fresh =>
        \A p \in DOMAIN courseDir \cap DOMAIN sectionDir :
            (/\ p.dir # ""
             /\ InList(p.dir, config.shared_folders)
             /\ InList(p.dir, config.per_section_folders))
            => /\ p \in DOMAIN content
               /\ content[p] = process_frontmatter(p, sectionDir[p], section_number)
               /\ content[p].meta[PlainKey("title")].under = "section"

\* A build met the collision: F/x.md came from both folders.
C1_Witness ==
    /\ fresh
    /\ InList("F", config.shared_folders)
    /\ InList("F", config.per_section_folders)
    /\ Path("F", "x", ".md") \in DOMAIN courseDir \cap DOMAIN sectionDir
    /\ Path("F", "x", ".md") \in DOMAIN content

(* C2: after a merge for a section whose index.md exists, content/index.md *)
(* is the section's own index document rewritten for the section, whatever *)
(* the shared and per-section steps copied.                                *)
C2_SectionIndexWins ==
    (fresh /\ IndexMd \in DOMAIN sectionDir) =>
        /\ IndexMd \in DOMAIN content
        /\ content[IndexMd] = process_frontmatter(IndexMd, sectionDir[IndexMd], section_number)

\* The files the merge steps of a build produce, said without the steps.
ExpectedPaths ==
    {p \in DOMAIN courseDir :
        \/ p.dir # "" /\ InList(p.dir, config.shared_folders)
        \/ p.dir = "" /\ InList(p, config.shared_files)}
    \cup
    {p \in DOMAIN sectionDir :
        \/ p = IndexMd
        \/ p.dir # "" /\ InList(p.dir, config.per_section_folders)
        \/ p.dir = "" /\ InList(p, config.per_section_files)}

(* C3: the content folder is rebuilt from scratch: after a build it holds  *)
(* exactly the files the merge steps of that build produce, and no file    *)
(* that only an earlier build produced.                                    *)
C3_ContentRebuilt == fresh => DOMAIN content = ExpectedPaths

\* A build started from a content folder holding files it does not produce.
C3_Witness ==
    /\ fresh
    /\ dropped
    /\ DOMAIN content # {}

\* The source files that a build copies to relative path p.
Sources(p) ==
    {courseDir[q] : q \in {q \in DOMAIN courseDir : q = p /\ p \in ExpectedPaths
                             /\ (p.dir # "" \/ InList(p, config.shared_files))}}
    \cup
    {sectionDir[q] : q \in {q \in DOMAIN sectionDir : q = p
                             /\ (p = IndexMd \/ InList(p.dir, config.per_section_folders)
                                 \/ InList(p, config.per_section_files))}}

\* process_frontmatter skips the file: not Markdown, or a header that does
\* not parse.
Skipped(p, file) == Lower(p.suffix) # ".md" \/ ~file.ok

(* C5: a non-Markdown file and a Markdown file whose header does not parse *)
(* reach the content folder byte-identical to the source they were copied  *)
(* from, and the merge goes on: every other file of the build is there.    *)
C5_RewriterFailureHandling ==
    fresh =>
        /\ \A p \in ExpectedPaths :
              /\ p \in DOMAIN content
              /\ (\A f \in Sources(p) : Skipped(p, f)) => content[p] \in Sources(p)
        /\ DOMAIN content \subseteq ExpectedPaths

\* A build copied the unparsable F/y.md and the non-Markdown n.txt, and
\* rewrote the files around them.
C5_Witness ==
    /\ fresh
    /\ {Path("F", "y", ".md"), Path("", "n", ".txt"), Path("F", "x", ".md"), IndexMd}
          \subseteq DOMAIN content
    /\ ~content[Path("F", "y", ".md")].ok
    /\ content[Path("F", "x", ".md")].fmt = "dumped"
    /\ InList("F", config.per_section_folders)


(***************************************************************************)
(* The patched artifacts.  A text is a sequence of tokens [k, v, n]: k the *)
(* kind of lexeme, v its payload, n a width.  The lexemes are the ones the *)
(* regular expressions of build_site.py tell apart, so that two texts are  *)
(* the same bytes exactly when they are the same sequence:                 *)
(*   ws     a run of n spaces or tabs          nl    a line break          *)
(*   code   any other text, named by v         semi  ";"                   *)
(* and per artifact the lexemes listed with its patch below.               *)
(***************************************************************************)
Tok(k, v, n) == [k |-> k, v |-> v, n |-> n]
T(k) == Tok(k, <<>>, 0)
Ws(n) == Tok("ws", <<>>, n)
Nl == T("nl")
Code(s) == Tok("code", <<s>>, 0)

\* The kind of the i-th token, "eof" outside the text.
KindAt(text, i) == IF i \in 1..Len(text) THEN text[i].k ELSE "eof"

\* \s matches the token.
IsSpace(k) == k \in {"ws", "nl"}

\* The last index of the run of \s* that starts after index i.
RECURSIVE SkipSpace(_, _)
SkipSpace(text, i) ==
    IF IsSpace(KindAt(text, i + 1)) THEN SkipSpace(text, i + 1) ELSE i

\* The first index after i of a token of kind k, 0 when there is none.
RECURSIVE FirstAfter(_, _, _)
FirstAfter(text, i, k) ==
    IF i >= Len(text) THEN 0
    ELSE IF text[i + 1].k = k THEN i + 1
    ELSE FirstAfter(text, i + 1, k)

\* text[i..j], empty when j < i.
Slice(text, i, j) == IF j < i THEN <<>> ELSE SubSeq(text, i, j)

\* ^ of re.MULTILINE matches before index i.
LineStart(text, i) == i = 1 \/ KindAt(text, i - 1) = "nl"

(***************************************************************************)
(* quartz.layout.ts and update_quartz_layout.  Lexemes:                    *)
(*   import  an import statement up to its end, without ";"                *)
(*   anchor  the comment "// CQ4T-OMIT-ANCHOR: ..." up to the line break   *)
(*   omit    "const omit = new Set" with its argument list: v the names    *)
(*           listed, n the way it is written: 0 as update_quartz_layout    *)
(*           writes it, 1 with a <string> generic, 2 over several lines    *)
(*   junk    the end of a declaration that a match stopped short of        *)
(* A name of the hidden list is [stem, exts]: its text is the stem         *)
(* followed by the suffixes of exts.                                       *)
(***************************************************************************)
Name(stem, exts) == [stem |-> stem, exts |-> exts]

\* item[:-3] if item.endswith(".md") else item
StripMd(item) ==
    IF item.exts # <<>> /\ item.exts[Len(item.exts)] = ".md"
    THEN [item EXCEPT !.exts = SubSeq(item.exts, 1, Len(item.exts) - 1)]
    ELSE item

normalized_hidden(hidden_components) ==
    [i \in 1..Len(hidden_components) |-> StripMd(hidden_components[i])]

\* replacement_line = f"const omit = new Set([{formatted}])"
replacement_line(hidden_components) ==
    Tok("omit", normalized_hidden(hidden_components), 0)

\* The stems that hold "])", as in the folder name  Drafts (old [v2])  .
ClosingStems == {"Drafts (old [v2])"}

\* The first name of the list whose text holds "])", 0 when there is none.
FirstCloser(names) ==
    LET closers == {j \in 1..Len(names) : names[j].stem \in ClosingStems}
    IN IF closers = {} THEN 0 ELSE CHOOSE j \in closers : \A l \in closers : j <= l

\* \[[\s\S]*?\][ \t]*\) stops at the first "])" of the declaration: when a
\* listed name holds one, the rest of the declaration from there on is not
\* part of the match and stays in the text (the lexeme junk, v the names
\* from that one on).
Leftover(decl) ==
    IF FirstCloser(decl.v) = 0 THEN <<>>
    ELSE <<Tok("junk", SubSeq(decl.v, FirstCloser(decl.v), Len(decl.v)), 0)>>

\* The declaration that pattern_omit matches at index i, 0 for no match:
\* the optional anchor group is written back as it was, so the match
\* consumes  [ \t]* const omit = new Set(<..>)?([ ... ])  from there.
OmitAt(text, i) ==
    IF KindAt(text, i) = "omit" THEN i
    ELSE IF KindAt(text, i) = "ws" /\ KindAt(text, i + 1) = "omit" THEN i + 1
    ELSE 0

\* The index of the last token the match at index i consumes whole:
\* [ \t]* ;?  follow the "])" the match stopped at.
OmitMatchEnd(text, i) ==
    LET d == OmitAt(text, i)
        a == IF KindAt(text, d + 1) = "ws" THEN d + 1 ELSE d
    IN IF d = 0 THEN 0
       ELSE IF Leftover(text[d]) # <<>> THEN d
       ELSE IF KindAt(text, a + 1) = "semi" THEN a + 1 ELSE a

\* What _repl puts in the place of the match at index i.
Replaced(text, i, repl) == <<repl>> \o Leftover(text[OmitAt(text, i)])

\* Mutant: pattern_omit.subn(_repl, content, count=1), the first match only.
RECURSIVE SubnOmitFirst(_, _, _)
SubnOmitFirst(text, i, repl) ==
    IF i > Len(text) THEN [text |-> <<>>, n |-> 0]
    ELSE IF OmitMatchEnd(text, i) > 0
         THEN [text |-> Replaced(text, i, repl)
                        \o Slice(text, OmitMatchEnd(text, i) + 1, Len(text)),
               n |-> 1]
         ELSE LET r == SubnOmitFirst(text, i + 1, repl)
              IN [text |-> <<text[i]>> \o r.text, n |-> r.n]

\* pattern_omit.subn(_repl, content, count=0) from index i: the new text
\* and the number of replacements.
RECURSIVE SubnOmit(_, _, _)
SubnOmit(text, i, repl) ==
    IF i > Len(text) THEN [text |-> <<>>, n |-> 0]
    ELSE IF OmitMatchEnd(text, i) > 0
         THEN LET r == SubnOmit(text, OmitMatchEnd(text, i) + 1, repl)
              IN [text |-> Replaced(text, i, repl) \o r.text, n |-> r.n + 1]
         ELSE LET r == SubnOmit(text, i + 1, repl)
              IN [text |-> <<text[i]>> \o r.text, n |-> r.n]

\* (?:import .*?;\s*)+ from the import at index i: with re.DOTALL each
\* "import .*?;" runs to the first ";" wherever it is; the end of the match.
RECURSIVE ImportRunEnd(_, _)
ImportRunEnd(text, i) ==
    LET e == SkipSpace(text, FirstAfter(text, i, "semi"))
    IN IF KindAt(text, e + 1) = "import" /\ FirstAfter(text, e + 1, "semi") # 0
       THEN ImportRunEnd(text, e + 1)
       ELSE e

\* re.search(r'^(?:import .*?;\s*)+', content): m.end(), 0 without a match.
ImportsEnd(text) ==
    LET starts == {i \in 1..Len(text) :
                      /\ text[i].k = "import"
                      /\ LineStart(text, i)
                      /\ FirstAfter(text, i, "semi") # 0}
    IN IF starts = {} THEN 0
       ELSE ImportRunEnd(text, CHOOSE i \in starts : \A j \in starts : i <= j)

\* update_quartz_layout(quartz_layout_path, hidden_components): the text
\* written back.
update_quartz_layout(text, hidden_components) ==
    LET repl == replacement_line(hidden_components)
        r == SubnOmit(text, 1, repl)
        insert_at == ImportsEnd(text)
    IN IF r.n # 0 THEN r.text
       ELSE Slice(text, 1, insert_at)
            \o (IF insert_at = 0 THEN <<>> ELSE <<Nl>>)
            \o <<repl, Nl>>
            \o Slice(text, insert_at + 1, Len(text))


\* "const omit = new Set" in txt
HasOmitText(text) == \E i \in 1..Len(text) : text[i].k = "omit"

\* ensure_quartz_layout_anchor(quartz_layout_path): the text on disk
\* afterwards; a text without the words gets  const omit = new Set([])  on
\* a line after the match of the import pattern, at the top without one.
ensure_quartz_layout_anchor(text) ==
    LET insert_at == ImportsEnd(text)
    IN IF HasOmitText(text) THEN text
       ELSE Slice(text, 1, insert_at)
            \o (IF insert_at = 0 THEN <<>> ELSE <<Nl>>)
            \o <<Tok("omit", <<>>, 0), Nl>>
            \o Slice(text, insert_at + 1, Len(text))

(***************************************************************************)
(* quartz.config.ts.  Lexemes:                                             *)
(*   title    pageTitle: "<v[1]> <v[2]> S<n>",  (v one text and n = 0 for  *)
(*            a title of another shape); the only text holding pageTitle:  *)
(*   plugin   Plugin.CustomOgImages()           slashes  "//"              *)
(*   theme, typography, colors, mode, field: the words theme:,             *)
(*            typography:, colors:, lightMode: / darkMode:, and            *)
(*            header: / body: / code: (v the word)                         *)
(*   lbrace, rbrace, comma, quote, bs: { } , " and \                       *)
(*   text     text without quote, backslash or brace, named by v           *)
(*   entry    one colour token, <name>: "<value>",  (v the two)            *)
(***************************************************************************)

\* file.readlines(): the lines of the text, each with its line break.
RECURSIVE Lines(_)
Lines(text) ==
    IF text = <<>> THEN <<>>
    ELSE LET e == FirstAfter(text, 0, "nl")
         IN IF e = 0 THEN <<text>>
            ELSE <<Slice(text, 1, e)>> \o Lines(Slice(text, e + 1, Len(text)))

\* ''.join(lines)
RECURSIVE Join(_)
Join(lines) == IF lines = <<>> THEN <<>> ELSE Head(lines) \o Join(Tail(lines))

\* A token of kind k is in the line.
HasKind(line, k) == \E i \in 1..Len(line) : line[i].k = k

\* course_code.upper() over the course codes of the model.
Upper(course_code) == IF course_code = "ics3u" THEN "ICS3U" ELSE course_code

\* An emoji argument is [glyph, padded]: the glyph (or "") with white space
\* around it when padded.  (emoji or FALLBACK).strip()
FallbackEmoji == "books"
safe_emoji(emoji) ==
    IF emoji.glyph = "" /\ ~emoji.padded THEN FallbackEmoji ELSE emoji.glyph

\* The line  pageTitle: "<new_title>",  that update_page_title writes.
TitleLine(course_code, n, emoji) ==
    <<Ws(2), Tok("title", <<safe_emoji(emoji), Upper(course_code)>>, n), Nl>>

\* update_page_title(config_path, course_code, section_number, emoji):
\* every line holding pageTitle: is replaced; the text on disk afterwards.
update_page_title(text, course_code, n, emoji) ==
    LET lines == Lines(text)
        new_lines == [i \in 1..Len(lines) |->
                        IF HasKind(lines[i], "title")
                        THEN TitleLine(course_code, n, emoji)
                        ELSE lines[i]]
        updated == \E i \in 1..Len(lines) : HasKind(lines[i], "title")
    IN IF updated THEN Join(new_lines) ELSE text

\* A value of the emojis record of course_config.json is [t, glyph, padded]:
\* t "none" for an absent or null value, "str" for a string (the glyph, or
\* "", with white space around it when padded), "num" for a number.
NoValue == [t |-> "none", glyph |-> "", padded |-> FALSE]
Str(glyph, padded) == [t |-> "str", glyph |-> glyph, padded |-> padded]

\* The truth value of `value` in  value or ...
Truthy(value) ==
    \/ value.t = "num"
    \/ value.t = "str" /\ (value.glyph # "" \/ value.padded)

\* sec_map.get(f"section{section_number}")
SectionEmoji(sec_map, n) == IF n \in DOMAIN sec_map THEN sec_map[n] ELSE NoValue

\* resolve_section_emoji(config, section_number).  The emojis entry of the
\* config is [kind, default, sections]: kind "missing" without the entry,
\* "dict" for an object, "other" for any other value; sections is
\* [kind, of]: kind "none" without the entry, "other" for a value that is
\* not an object, "dict" for an object, `of` then being the function from
\* section numbers to values.  A call of a method the value does not have raises,
\* and the except clause returns the fallback.
resolve_section_emoji(emojis, n) ==
    IF emojis.kind = "other" THEN FallbackEmoji
    ELSE IF emojis.kind = "missing" THEN FallbackEmoji
    ELSE IF emojis.sections.kind = "other" THEN FallbackEmoji
    ELSE LET default_emo == IF Truthy(emojis.default) THEN emojis.default
                            ELSE Str(FallbackEmoji, FALSE)
             sec_emo == SectionEmoji(emojis.sections.of, n)
             picked == IF Truthy(sec_emo) THEN sec_emo ELSE default_emo
         IN IF picked.t # "str" THEN FallbackEmoji
            ELSE IF picked.glyph = "" THEN FallbackEmoji
            ELSE picked.glyph

\* line.strip().startswith("//")
StartsWithSlashes(line) == KindAt(line, SkipSpace(line, 0) + 1) = "slashes"

\* line.replace("//", "", 1)
RemoveFirstSlashes(line) ==
    LET i == FirstAfter(line, 0, "slashes")
    IN Slice(line, 1, i - 1) \o Slice(line, i + 1, Len(line))

\* Mutant: the line is toggled whether it holds the plugin or not.
ToggleLineEveryLine(line, enable) ==
    IF enable /\ StartsWithSlashes(line) THEN RemoveFirstSlashes(line)
    ELSE IF ~enable /\ ~StartsWithSlashes(line) THEN <<T("slashes")>> \o line
    ELSE line

\* The loop body of toggle_custom_og_images for one line.
ToggleLine(line, enable) ==
    IF ~HasKind(line, "plugin") THEN line
    ELSE IF enable /\ StartsWithSlashes(line) THEN RemoveFirstSlashes(line)
    ELSE IF ~enable /\ ~StartsWithSlashes(line) THEN <<T("slashes")>> \o line
    ELSE line

\* toggle_custom_og_images(config_path, enable): the text on disk afterwards
\* (written only when a line changed, which leaves the same text).
toggle_custom_og_images(text, enable) ==
    LET lines == Lines(text)
    IN Join([i \in 1..Len(lines) |-> ToggleLine(lines[i], enable)])


(***************************************************************************)
(* patch_typography_fonts.  A font family is a sequence of text and quote  *)
(* tokens (a family name may hold double quotes).                          *)
(***************************************************************************)
Text(s) == Tok("text", <<s>>, 0)
Field(name) == Tok("field", <<name>>, 0)

\* val.replace('"', r'\"')
RECURSIVE _escape_font(_)
_escape_font(val) ==
    IF val = <<>> THEN <<>>
    ELSE (IF Head(val).k = "quote" THEN <<T("bs"), T("quote")>> ELSE <<Head(val)>>)
         \o _escape_font(Tail(val))

\* The index of the "{" of the first  typography\s*:\s*\{ , 0 without one.
RECURSIVE BlockOpen(_, _, _)
BlockOpen(text, i, word) ==
    LET t == FirstAfter(text, i, word)
    IN IF t = 0 THEN 0
       ELSE IF KindAt(text, SkipSpace(text, t) + 1) = "lbrace"
            THEN SkipSpace(text, t) + 1
            ELSE BlockOpen(text, t, word)

\* The opening quote of the first  field\s*:\s*"(.*?)"  after index b, 0
\* without one: the lazy [\s\S]*? stops at the first field that is followed
\* by a quoted value.
RECURSIVE FieldQuote(_, _, _)
FieldQuote(text, b, field) ==
    LET j == FirstAfter(text, b, "field")
        q == SkipSpace(text, j) + 1
    IN IF j = 0 THEN 0
       ELSE IF text[j].v = <<field>> /\ KindAt(text, q) = "quote"
               /\ FirstAfter(text, q, "quote") # 0
            THEN q
            ELSE FieldQuote(text, j, field)

\* replace_field(src, field, value): the new text and whether the pattern
\* matched.  The value between the first pair of quotes is replaced.
replace_field(src, field, value) ==
    LET b == BlockOpen(src, 0, "typography")
        q == IF b = 0 THEN 0 ELSE FieldQuote(src, b, field)
    IN IF q = 0 THEN [text |-> src, hit |-> FALSE]
       ELSE [text |-> Slice(src, 1, q) \o value
                      \o Slice(src, FirstAfter(src, q, "quote"), Len(src)),
             hit |-> TRUE]

\* new_block of patch_typography_fonts.
TypographyBlock(hf, bf, cf) ==
    <<T("typography"), Ws(1), T("lbrace"), Nl>>
    \o <<Ws(8), Field("header"), Ws(1), T("quote")>> \o hf \o <<T("quote"), T("comma"), Nl>>
    \o <<Ws(8), Field("body"), Ws(1), T("quote")>> \o bf \o <<T("quote"), T("comma"), Nl>>
    \o <<Ws(8), Field("code"), Ws(1), T("quote")>> \o cf \o <<T("quote"), T("comma"), Nl>>
    \o <<Ws(6), T("rbrace"), T("comma")>>

\* block_re.subn(new_block, new_content, count=1): typography\s*:\s*\{ up
\* to the first "}", the white space after it and one comma.
ReplaceTypographyBlock(text, new_block) ==
    LET b == BlockOpen(text, 0, "typography")
        c == IF b = 0 THEN 0 ELSE FirstAfter(text, b, "rbrace")
        start == CHOOSE t \in 1..Len(text) :
                    text[t].k = "typography" /\ SkipSpace(text, t) + 1 = b
        e == SkipSpace(text, c)
        last == IF KindAt(text, e + 1) = "comma" THEN e + 1 ELSE e
    IN IF c = 0 THEN [text |-> text, n |-> 0]
       ELSE [text |-> Slice(text, 1, start - 1) \o new_block
                      \o Slice(text, last + 1, Len(text)),
             n |-> 1]

\* patch_typography_fonts(quartz_config_path, header_font, body_font,
\* code_font): the text on disk afterwards and the value of `changed`, which
\* decides whether the file is written.
patch_typography_fonts(text, header_font, body_font, code_font) ==
    LET hf == _escape_font(header_font)
        bf == _escape_font(body_font)
        cf == _escape_font(code_font)
        rh == replace_field(text, "header", hf)
        rb == replace_field(rh.text, "body", bf)
        rc == replace_field(rb.text, "code", cf)
        new_block == TypographyBlock(hf, bf, cf)
        r2 == ReplaceTypographyBlock(rc.text, new_block)
        theme_open == BlockOpen(rc.text, 0, "theme")
    IN IF rh.hit \/ rb.hit \/ rc.hit THEN [text |-> rc.text, changed |-> TRUE]
       ELSE IF r2.n # 0 THEN [text |-> r2.text, changed |-> TRUE]
       ELSE IF theme_open # 0
            THEN [text |-> Slice(rc.text, 1, theme_open) \o <<Nl, Ws(6)>> \o new_block
                           \o Slice(rc.text, theme_open + 1, Len(rc.text)),
                  changed |-> TRUE]
       ELSE [text |-> text, changed |-> FALSE]

(***************************************************************************)
(* apply_color_scheme_to_quartz_config.  A scheme's colors record maps     *)
(* lightMode and darkMode to functions from token names to values          *)
(* [str, s]: str FALSE for a value that is not a string.                   *)
(***************************************************************************)
ColorOrder ==
    <<"light", "lightgray", "gray", "darkgray", "dark", "secondary", "tertiary",
      "highlight", "textHighlight">>

\* dict_to_ts(d): one line per known token that d gives a string, in the
\* fixed order, joined by line breaks.
RECURSIVE dict_to_ts(_, _)
dict_to_ts(d, i) ==
    IF i > Len(ColorOrder) THEN <<>>
    ELSE LET k == ColorOrder[i]
             rest == dict_to_ts(d, i + 1)
         IN IF k \in DOMAIN d /\ d[k].str
            THEN <<Ws(10), Tok("entry", <<k, d[k].s>>, 0)>>
                 \o (IF rest = <<>> THEN <<>> ELSE <<Nl>> \o rest)
            ELSE rest

\* colors.get(mode, {})
GetMode(colors, mode) == IF mode \in DOMAIN colors THEN colors[mode] ELSE EmptyDir

\* format_colors_block(colors)
format_colors_block(colors) ==
    <<Ws(6), T("colors"), Ws(1), T("lbrace"), Nl>>
    \o <<Ws(8), Tok("mode", <<"lightMode">>, 0), Ws(1), T("lbrace"), Nl>>
    \o dict_to_ts(GetMode(colors, "lightMode"), 1) \o <<Nl>>
    \o <<Ws(8), T("rbrace"), T("comma"), Nl>>
    \o <<Ws(8), Tok("mode", <<"darkMode">>, 0), Ws(1), T("lbrace"), Nl>>
    \o dict_to_ts(GetMode(colors, "darkMode"), 1) \o <<Nl>>
    \o <<Ws(8), T("rbrace"), T("comma"), Nl>>
    \o <<Ws(6), T("rbrace"), T("comma")>>

\* Mutant: the span ends at the first "}", whatever the nesting.
MatchingCloseFirst(text, i, depth) ==
    IF i > Len(text) THEN 0 ELSE FirstAfter(text, i - 1, "rbrace")

\* The while loop of _replace_colors_block_ts from index i at nesting
\* `depth`: the index of the brace that brings the depth to 0, 0 when the
\* text ends first.
RECURSIVE MatchingClose(_, _, _)
MatchingClose(text, i, depth) ==
    IF i > Len(text) THEN 0
    ELSE IF text[i].k = "lbrace" THEN MatchingClose(text, i + 1, depth + 1)
    ELSE IF text[i].k = "rbrace"
         THEN (IF depth = 1 THEN i ELSE MatchingClose(text, i + 1, depth - 1))
    ELSE MatchingClose(text, i + 1, depth)

\* _replace_colors_block_ts(text, new_colors_block): the span replaced
\* starts at the word colors, after the indentation in front of it.
_replace_colors_block_ts(text, new_colors_block) ==
    LET brace_open == BlockOpen(text, 0, "colors")
        start == CHOOSE t \in 1..Len(text) :
                    text[t].k = "colors" /\ SkipSpace(text, t) + 1 = brace_open
        brace_close == MatchingClose(text, brace_open + 1, 1)
        end == IF KindAt(text, brace_close + 1) = "comma"
               THEN brace_close + 1 ELSE brace_close
    IN IF brace_open = 0 \/ brace_close = 0 THEN text
       ELSE Slice(text, 1, start - 1) \o new_colors_block
            \o Slice(text, end + 1, Len(text))

\* The first "}" right before a "," after index i, 0 without one.
RECURSIVE CloseComma(_, _)
CloseComma(text, i) ==
    LET c == FirstAfter(text, i, "rbrace")
    IN IF c = 0 THEN 0
       ELSE IF KindAt(text, c + 1) = "comma" THEN c + 1
       ELSE CloseComma(text, c)

\* The fallback re.sub of apply_color_scheme_to_quartz_config: the block
\* goes after  theme: { ... typography: { ... },  and the white space that
\* follows it.
InsertColorsAfterTypography(text, new_colors_block) ==
    LET th == BlockOpen(text, 0, "theme")
        ty == IF th = 0 THEN 0 ELSE BlockOpen(text, th, "typography")
        cc == IF ty = 0 THEN 0 ELSE CloseComma(text, ty)
        e == SkipSpace(text, cc)
    IN IF cc = 0 THEN text
       ELSE Slice(text, 1, e) \o <<Nl>> \o new_colors_block \o <<Nl>>
            \o Slice(text, e + 1, Len(text))

\* apply_color_scheme_to_quartz_config(quartz_config_path, scheme_colors):
\* the text written back.
apply_color_scheme_to_quartz_config(text, scheme_colors) ==
    LET new_colors_block == format_colors_block(scheme_colors)
        updated == _replace_colors_block_ts(text, new_colors_block)
    IN IF updated = text
       THEN InsertColorsAfterTypography(text, new_colors_block)
       ELSE updated

(***************************************************************************)
(* patch_content_meta_options.  Lexemes of ContentMeta.tsx: defaultOptions *)
(* is  const defaultOptions: ContentMetaOptions = {  , opt an option name  *)
(* with its colon, bool the literal true or false.                         *)
(***************************************************************************)
Opt(name) == Tok("opt", <<name>>, 0)
Bool(b) == Tok("bool", <<b>>, 0)

\* Mutant: only showReadingTime is rewritten.
IsReadingTimeValueOnly(text, i) ==
    /\ text[i].k = "bool"
    /\ \E j \in 1..(i - 1) :
          /\ text[j].k = "opt"
          /\ text[j].v = <<"showReadingTime">>
          /\ SkipSpace(text, j) + 1 = i

\* (showReadingTime\s*:\s*)(true|false) or the same for showComma ends at
\* index i.
IsReadingTimeValue(text, i) ==
    /\ text[i].k = "bool"
    /\ \E j \in 1..(i - 1) :
          /\ text[j].k = "opt"
          /\ text[j].v \in {<<"showReadingTime">>, <<"showComma">>}
          /\ SkipSpace(text, j) + 1 = i

\* Line 992: bool(config.get("show_reading_time", False)) for a
\* configuration that holds true, holds false, or has no such key.
ConfiguredReadingTime == {"true", "false", "absent"}
show_reading_time_of(configured) == configured = "true"

\* patch_content_meta_options(date_tsx_file_path, show_reading_time): the
\* two options are rewritten between the head of the first defaultOptions
\* declaration and the first "}" after it.
patch_content_meta_options(text, show_reading_time) ==
    LET head == FirstAfter(text, 0, "defaultOptions")
        tail == IF head = 0 THEN 0 ELSE FirstAfter(text, head, "rbrace")
    IN IF tail = 0 THEN text
       ELSE [i \in 1..Len(text) |->
                IF i > head /\ i < tail /\ IsReadingTimeValue(text, i)
                THEN Bool(show_reading_time) ELSE text[i]]

(***************************************************************************)
(* patch_render_page_transclude_title.  Lexemes of renderPage.tsx:         *)
(* nodeChildren is  node.children = [ { type: "element",  , tagName is     *)
(* tagName:  , h1 the literal "h1", props is  , properties: {}, children:  *)
(* [  and override is  page.frontmatter?.transcludeTitleSize ??  .         *)
(***************************************************************************)
\* The index of the "h1" of the first  tagName:\s*"h1"  after index i, 0
\* without one.
RECURSIVE TagNameH1(_, _)
TagNameH1(text, i) ==
    LET t == FirstAfter(text, i, "tagName")
    IN IF t = 0 THEN 0
       ELSE IF KindAt(text, SkipSpace(text, t) + 1) = "h1"
            THEN SkipSpace(text, t) + 1
            ELSE TagNameH1(text, t)

\* The index of the "h1" of the first match of pattern_specific after index
\* i, 0 without one.
RECURSIVE SpecificH1(_, _)
SpecificH1(text, i) ==
    LET c == FirstAfter(text, i, "nodeChildren")
        t == SkipSpace(text, c) + 1
        h == SkipSpace(text, t) + 1
    IN IF c = 0 THEN 0
       ELSE IF KindAt(text, t) = "tagName" /\ KindAt(text, h) = "h1"
               /\ KindAt(text, SkipSpace(text, h) + 1) = "props"
            THEN h
            ELSE SpecificH1(text, c)

\* "h1" at index h becomes  page.frontmatter?.transcludeTitleSize ?? "h1"
OverrideAt(text, h) ==
    Slice(text, 1, h - 1) \o <<T("override"), Ws(1)>> \o Slice(text, h, Len(text))

\* patch_render_page_transclude_title(render_page_tsx_path): the text on
\* disk afterwards.
patch_render_page_transclude_title(text) ==
    LET specific == SpecificH1(text, 0)
        fallback == TagNameH1(text, 0)
    IN IF specific # 0 THEN OverrideAt(text, specific)
       ELSE IF fallback # 0 THEN OverrideAt(text, fallback)
       ELSE text

(***************************************************************************)
(* SpecPatch: one artifact of the output directory and the patch functions *)
(* of build_site.py called on it, any number of them up to MaxPatches, in  *)
(* any order and with any arguments.                                       *)
(***************************************************************************)
MaxPatches == 3

\* The width of the run of spaces that starts at index i.
RECURSIVE RunWidth(_, _)
RunWidth(text, i) ==
    IF KindAt(text, i) = "ws" THEN text[i].n + RunWidth(text, i + 1) ELSE 0

\* Adjacent runs of spaces are one run: the same bytes are one sequence.
Canon(text) ==
    LET merged == [i \in 1..Len(text) |->
                      IF text[i].k # "ws" THEN text[i]
                      ELSE IF KindAt(text, i - 1) = "ws" THEN T("merged")
                      ELSE Ws(RunWidth(text, i))]
    IN SelectSeq(merged, LAMBDA t : t.k # "merged")

\* ---- quartz.layout.ts as the build finds it
NoName == Name("", <<>>)
HiddenLists ==
    { <<>>,
      <<Name("Notes", <<".md">>), Name("Media", <<>>)>>,
      <<Name("Media", <<>>), Name("Notes", <<".md">>)>>,
      <<Name("archive", <<".md", ".md">>), Name("README", <<".MD">>)>>,
      <<Name("Drafts (old [v2])", <<>>), Name("Media", <<>>)>> }

\* The block that setup_course.py puts in each Component.Explorer().
ExplorerBlock ==
    <<Ws(6), T("anchor"), Nl, Ws(6), Tok("omit", <<NoName>>, 1), T("semi"), Nl,
      Ws(6), Code("filterFn"), Nl>>

LayoutImports == <<T("import"), T("semi"), Nl, T("import"), T("semi"), Nl, Nl>>

BareImports == <<T("import"), Nl, T("import"), Nl, Nl>>

LayoutTexts ==
    { \* after setup: the desktop and the mobile explorer
      LayoutImports \o <<Code("left"), Nl>> \o ExplorerBlock
          \o <<Code("right"), Nl>> \o ExplorerBlock \o <<Code("end"), Nl>>,
      \* an older revision: one declaration over several lines, no anchor
      LayoutImports \o <<Ws(2), Tok("omit", <<Name("Private", <<>>)>>, 2), Nl,
                         Code("left"), Nl>>,
      \* without setup: no declaration
      LayoutImports \o <<Code("left"), Nl>>,
      <<Code("left"), Nl>>,
      \* the scaffold's own style, imports without ";": with a ";" further
      \* down in a helper, and without any
      BareImports \o <<Code("left"), Nl, Code("helper"), T("semi"), Ws(1),
                       Code("return"), Nl, Code("right"), Nl>>,
      BareImports \o <<Code("left"), Nl>> }

\* ---- quartz.config.ts
FontLine(field, family) ==
    <<Ws(8), Field(field), Ws(1), T("quote"), Text(family), T("quote"), T("comma"), Nl>>

PristineTypography ==
    <<Ws(6), T("typography"), Ws(1), T("lbrace"), Nl>>
    \o FontLine("header", "Schibsted Grotesk") \o FontLine("body", "Source Sans Pro")
    \o FontLine("code", "IBM Plex Mono")
    \o <<Ws(6), T("rbrace"), T("comma"), Nl>>

PristineColors ==
    <<Ws(6), T("colors"), Ws(1), T("lbrace"), Nl,
      Ws(8), Tok("mode", <<"lightMode">>, 0), Ws(1), T("lbrace"), Nl,
      Ws(10), Tok("entry", <<"light", "#faf8f8">>, 0), Nl,
      Ws(8), T("rbrace"), T("comma"), Nl,
      Ws(8), Tok("mode", <<"darkMode">>, 0), Ws(1), T("lbrace"), Nl,
      Ws(10), Tok("entry", <<"light", "#161618">>, 0), Nl,
      Ws(8), T("rbrace"), T("comma"), Nl,
      Ws(6), T("rbrace"), T("comma"), Nl>>

\* A typography block that declares no code font.
TwoFontTypography ==
    <<Ws(6), T("typography"), Ws(1), T("lbrace"), Nl>>
    \o FontLine("header", "Schibsted Grotesk") \o FontLine("body", "Source Sans Pro")
    \o <<Ws(6), T("rbrace"), T("comma"), Nl>>

ConfigText(typography, colors, plugin) ==
    <<Code("config"), Nl, Ws(4), Tok("title", <<"Quartz 4">>, 0), Nl,
      Ws(4), T("theme"), Ws(1), T("lbrace"), Nl>>
    \o typography \o colors
    \o <<Ws(4), T("rbrace"), T("comma"), Nl>>
    \o plugin
    \o <<Code("plugins"), Nl>>

PluginLine == <<Ws(6), T("plugin"), T("comma"), Nl>>

ConfigTexts ==
    { ConfigText(PristineTypography, PristineColors, PluginLine),
      \* the emitter commented out by hand
      ConfigText(PristineTypography, PristineColors,
                 <<Ws(6), T("slashes"), Ws(1), T("plugin"), T("comma"), Nl>>),
      \* a theme without a colors block
      ConfigText(PristineTypography, <<>>, PluginLine),
      \* a typography block without quoted families, and one without any
      ConfigText(<<Ws(6), T("typography"), Ws(1), T("lbrace"), T("rbrace"), T("comma"), Nl>>,
                 PristineColors, PluginLine),
      ConfigText(<<>>, PristineColors, PluginLine),
      \* a typography block without a code font, alone and before a plugin
      \* option named code
      ConfigText(TwoFontTypography, PristineColors, PluginLine),
      ConfigText(TwoFontTypography, PristineColors,
                 <<Ws(6), T("plugin"), T("lbrace"), Ws(1), Field("code"), Ws(1),
                   T("quote"), Text("keep"), T("quote"), Ws(1), T("rbrace"),
                   T("comma"), Nl>>) }

CourseCodes == {"ics3u"}
Emojis ==
    { [glyph |-> "", padded |-> FALSE], [glyph |-> "", padded |-> TRUE],
      [glyph |-> "rocket", padded |-> TRUE] }

\* The emojis entry of course_config.json: as setup writes it, and edited
\* by hand.
NoSections == [kind |-> "none", of |-> EmptyDir]
SectionMap(of) == [kind |-> "dict", of |-> of]
EmojiConfigs ==
    { [kind |-> "missing", default |-> NoValue, sections |-> NoSections],
      [kind |-> "other", default |-> NoValue, sections |-> NoSections],
      [kind |-> "dict", default |-> NoValue, sections |-> NoSections],
      [kind |-> "dict", default |-> Str("star", FALSE), sections |-> [kind |-> "other", of |-> EmptyDir]],
      [kind |-> "dict", default |-> Str("star", FALSE), sections |-> NoSections],
      [kind |-> "dict", default |-> Str("", TRUE), sections |-> SectionMap(1 :> Str("", FALSE))],
      [kind |-> "dict", default |-> Str("star", FALSE), sections |-> SectionMap(1 :> Str("rocket", TRUE))],
      [kind |-> "dict", default |-> Str("star", TRUE), sections |-> SectionMap(1 :> Str("", FALSE))],
      [kind |-> "dict", default |-> Str("star", FALSE), sections |-> SectionMap(1 :> [NoValue EXCEPT !.t = "num"])],
      [kind |-> "dict", default |-> Str("star", FALSE), sections |-> SectionMap(1 :> Str("", TRUE))] }

\* Font families: plain ones and one whose name holds double quotes.
PlainFont == <<Text("Inter")>>
QuotedFont == <<Text("My "), T("quote"), Text("Font"), T("quote")>>
FontChoices ==
    { [header |-> PlainFont, body |-> PlainFont, code |-> <<Text("Fira Code")>>],
      [header |-> QuotedFont, body |-> PlainFont, code |-> <<Text("Fira Code")>>] }

Hex(s) == [str |-> TRUE, s |-> s]
Schemes ==
    { [lightMode |-> [light |-> Hex("#ffffff"), secondary |-> Hex("#284b63")],
       darkMode |-> [light |-> Hex("#000000"), secondary |-> Hex("#7b97aa")]],
      \* a scheme with a value that is not a string, a token Quartz does not
      \* know, out of order, and without darkMode
      [lightMode |-> [secondary |-> Hex("#268bd2"), accent |-> Hex("#ff0000"),
                      light |-> Hex("#fdf6e3"), dark |-> [str |-> FALSE, s |-> ""]]] }

\* ---- quartz/components/ContentMeta.tsx
OptionLine(name, b) == <<Ws(2), Opt(name), Ws(1), Bool(b), T("comma"), Nl>>

ContentMetaTexts ==
    { <<Code("interface"), Nl, T("defaultOptions"), Nl>>
          \o OptionLine("showReadingTime", r) \o OptionLine("showComma", c)
          \o <<T("rbrace"), Nl, Code("component"), T("lbrace"), Nl>>
          \o OptionLine("showReadingTime", TRUE)
          \o <<T("rbrace"), Nl>> : r \in BOOLEAN, c \in BOOLEAN }
    \cup { <<Code("component"), Nl>> }

\* ---- quartz/components/renderPage.tsx
TagLine(kind) == <<Ws(14), T("tagName"), Ws(1), T(kind), T("comma"), Nl>>
PageTransclude ==
    <<Ws(10), T("nodeChildren"), Nl, Ws(14), T("tagName"), Ws(1), T("h1"), T("props"), Nl,
      Code("children"), Nl>>

RenderPageTexts ==
    { <<Code("render"), Nl>> \o PageTransclude,
      \* with another "h1" literal after, and before, the node.children one
      <<Code("render"), Nl>> \o PageTransclude \o TagLine("h1"),
      <<Code("render"), Nl>> \o TagLine("h1") \o PageTransclude,
      \* a revision where only the fallback pattern matches
      <<Code("render"), Nl>> \o TagLine("h1"),
      <<Code("render"), Nl>> \o TagLine("h2") }

(***************************************************************************)
(* base.scss under patch_internal_link_highlight.  Tokens of the text:     *)
(*   internal    &.internal {                                              *)
(*   highlight   background-color: var(--highlight);                       *)
(*   decl        another declaration (v its property)                      *)
(*   copen       the comment opener, cclose the comment closer             *)
(*   open, close the braces of the other rules and the closing brace       *)
(***************************************************************************)
Decl(name) == Tok("decl", <<name>>, 0)

\* [^}]*? followed by the declaration: the first highlight token after i
\* with no closing brace before it, 0 when there is none.
RECURSIVE HighlightInRule(_, _)
HighlightInRule(text, i) ==
    IF KindAt(text, i + 1) \in {"eof", "close"} THEN 0
    ELSE IF KindAt(text, i + 1) = "highlight" THEN i + 1
    ELSE HighlightInRule(text, i + 1)

\* line 114: the replacement after group 1.
CommentedHighlight == <<T("copen"), Ws(4), T("highlight"), Ws(1), T("cclose"), Nl>>

\* line 116: pattern.sub from position i on; a match runs from &.internal {
\* over the declaration and the whitespace after it.
RECURSIVE SubHighlight(_, _)
SubHighlight(text, i) ==
    IF i > Len(text) THEN <<>>
    ELSE IF text[i].k = "internal" /\ HighlightInRule(text, i) # 0
         THEN LET h == HighlightInRule(text, i)
              IN Slice(text, i, h - 1) \o CommentedHighlight
                 \o SubHighlight(text, SkipSpace(text, h) + 1)
         ELSE <<text[i]>> \o SubHighlight(text, i + 1)

\* patch_internal_link_highlight(base_scss_path) on the text of the file:
\* the text written, and whether the "already commented out (no change)"
\* message is the one printed.
patch_internal_link_highlight(text) ==
    [text |-> SubHighlight(text, 1), no_change |-> Canon(SubHighlight(text, 1)) = text]

InternalRule ==
    <<Ws(2), T("internal"), Nl, Ws(4), Decl("text-decoration"), Nl,
      Ws(4), T("highlight"), Nl, Ws(4), Decl("padding"), Nl, Ws(2), T("close"), Nl>>
ScssTexts ==
    { <<Code("a"), T("open"), Nl>> \o InternalRule \o <<T("close"), Nl>>,
      \* the declaration last in the rule, and the same declaration in a
      \* rule of its own further down
      <<Code("a"), T("open"), Nl, Ws(2), T("internal"), Nl, Ws(4), T("highlight"), Nl,
        Ws(2), T("close"), Nl, T("close"), Nl,
        Code("mark"), T("open"), Nl, Ws(2), T("highlight"), Nl, T("close"), Nl>>,
      \* an .internal rule without the declaration
      <<Code("a"), T("open"), Nl, Ws(2), T("internal"), Nl, Ws(4), Decl("padding"), Nl,
        Ws(2), T("close"), Nl, T("close"), Nl,
        Code("mark"), T("open"), Nl, Ws(2), T("highlight"), Nl, T("close"), Nl>> }

ArtifactNames ==
    {"quartz.layout.ts", "quartz.config.ts", "ContentMeta.tsx", "renderPage.tsx", "base.scss"}

TextsOf(file) ==
    IF file = "quartz.layout.ts" THEN LayoutTexts
    ELSE IF file = "quartz.config.ts" THEN ConfigTexts
    ELSE IF file = "ContentMeta.tsx" THEN ContentMetaTexts
    ELSE IF file = "renderPage.tsx" THEN RenderPageTexts
    ELSE ScssTexts

InitPatch ==
    /\ artifact \in ArtifactNames
    /\ disk \in TextsOf(artifact)
    /\ diskBefore = disk
    /\ lastOp = "none"
    /\ lastArg = <<>>
    /\ reported = FALSE
    /\ patches = 0
    /\ FmIdle
    /\ MergeIdle
    /\ SetupIdle
    /\ EmojiIdle
    /\ BuildIdle
    /\ FooterIdle
    /\ SectionsIdle
    /\ BackupIdle

\* The bookkeeping of one call of the patch function op with arguments arg.
Called(op, arg) ==
    /\ lastOp' = op
    /\ lastArg' = arg
    /\ diskBefore' = disk
    /\ patches' = patches + 1
    /\ UNCHANGED <<artifact, fmVars, mergeVars, setupVars, emojiVars, buildVars, footerVars, sectionsVars, backupVars>>

UpdateQuartzLayout ==
    /\ artifact = "quartz.layout.ts"
    /\ patches < MaxPatches
    /\ \E hidden \in HiddenLists :
          /\ disk' = Canon(update_quartz_layout(disk, hidden))
          /\ Called("update_quartz_layout", [hidden |-> hidden])
    /\ UNCHANGED reported

\* The two layout calls of every build, one after the other.
EnsureAndUpdateLayout ==
    /\ artifact = "quartz.layout.ts"
    /\ patches < MaxPatches
    /\ \E hidden \in HiddenLists :
          /\ disk' = Canon(update_quartz_layout(ensure_quartz_layout_anchor(disk), hidden))
          /\ Called("ensure_quartz_layout_anchor", [hidden |-> hidden])
    /\ UNCHANGED reported

UpdatePageTitle ==
    /\ artifact = "quartz.config.ts"
    /\ patches < MaxPatches
    /\ \E course_code \in CourseCodes, n \in Sections, emoji \in Emojis :
          /\ disk' = Canon(update_page_title(disk, course_code, n, emoji))
          /\ Called("update_page_title",
                    [course_code |-> course_code, n |-> n, emoji |-> emoji])
    /\ UNCHANGED reported

\* The title step of every build: the emoji is resolved from the config
\* and handed to update_page_title.
UpdateSectionTitle ==
    /\ artifact = "quartz.config.ts"
    /\ patches < MaxPatches
    /\ \E course_code \in CourseCodes, n \in Sections, emojis \in EmojiConfigs :
          LET page_emoji == [glyph |-> resolve_section_emoji(emojis, n), padded |-> FALSE]
          IN /\ disk' = Canon(update_page_title(disk, course_code, n, page_emoji))
             /\ Called("resolve_section_emoji",
                       [course_code |-> course_code, n |-> n, emojis |-> emojis])
    /\ UNCHANGED reported

ToggleCustomOgImages ==
    /\ artifact = "quartz.config.ts"
    /\ patches < MaxPatches
    /\ \E enable \in BOOLEAN :
          /\ disk' = Canon(toggle_custom_og_images(disk, enable))
          /\ Called("toggle_custom_og_images", [enable |-> enable])
    /\ UNCHANGED reported

PatchTypographyFonts ==
    /\ artifact = "quartz.config.ts"
    /\ patches < MaxPatches
    /\ \E fonts \in FontChoices :
          LET r == patch_typography_fonts(disk, fonts.header, fonts.body, fonts.code)
          IN /\ disk' = Canon(r.text)
             /\ reported' = r.changed
             /\ Called("patch_typography_fonts", fonts)

ApplyColorScheme ==
    /\ artifact = "quartz.config.ts"
    /\ patches < MaxPatches
    /\ \E colors \in Schemes :
          /\ disk' = Canon(apply_color_scheme_to_quartz_config(disk, colors))
          /\ Called("apply_color_scheme_to_quartz_config", [colors |-> colors])
    /\ UNCHANGED reported

PatchContentMetaOptions ==
    /\ artifact = "ContentMeta.tsx"
    /\ patches < MaxPatches
    /\ \E configured \in ConfiguredReadingTime :
          /\ disk' = Canon(patch_content_meta_options(disk, show_reading_time_of(configured)))
          /\ Called("patch_content_meta_options",
                    [show_reading_time |-> show_reading_time_of(configured),
                     configured |-> configured])
    /\ UNCHANGED reported

PatchRenderPageTranscludeTitle ==
    /\ artifact = "renderPage.tsx"
    /\ patches < MaxPatches
    /\ disk' = Canon(patch_render_page_transclude_title(disk))
    /\ Called("patch_render_page_transclude_title", <<>>)
    /\ UNCHANGED reported

PatchInternalLinkHighlight ==
    /\ artifact = "base.scss"
    /\ patches < MaxPatches
    /\ disk' = Canon(patch_internal_link_highlight(disk).text)
    /\ reported' = ~patch_internal_link_highlight(disk).no_change
    /\ Called("patch_internal_link_highlight", <<>>)

NextPatch ==
    \/ UpdateQuartzLayout
    \/ EnsureAndUpdateLayout
    \/ UpdatePageTitle
    \/ UpdateSectionTitle
    \/ ToggleCustomOgImages
    \/ PatchTypographyFonts
    \/ ApplyColorScheme
    \/ PatchContentMetaOptions
    \/ PatchRenderPageTranscludeTitle
    \/ PatchInternalLinkHighlight

SpecPatch == InitPatch /\ [][NextPatch]_vars

(***************************************************************************)
(* Properties of the patches.                                              *)
(***************************************************************************)
\* The text on disk if the next build makes the last call once more, with
\* the same arguments.
Reapplied ==
    IF lastOp = "update_quartz_layout"
    THEN Canon(update_quartz_layout(disk, lastArg.hidden))
    ELSE IF lastOp = "update_page_title"
    THEN Canon(update_page_title(disk, lastArg.course_code, lastArg.n, lastArg.emoji))
    ELSE IF lastOp = "toggle_custom_og_images"
    THEN Canon(toggle_custom_og_images(disk, lastArg.enable))
    ELSE IF lastOp = "patch_content_meta_options"
    THEN Canon(patch_content_meta_options(disk, lastArg.show_reading_time))
    ELSE IF lastOp = "patch_typography_fonts"
    THEN Canon(patch_typography_fonts(disk, lastArg.header, lastArg.body,
                                      lastArg.code).text)
    ELSE IF lastOp = "apply_color_scheme_to_quartz_config"
    THEN Canon(apply_color_scheme_to_quartz_config(disk, lastArg.colors))
    ELSE IF lastOp = "patch_render_page_transclude_title"
    THEN Canon(patch_render_page_transclude_title(disk))
    ELSE disk

PerBuildPatches ==
    {"update_quartz_layout", "update_page_title", "toggle_custom_og_images",
     "patch_content_meta_options"}

\* C6: after a call of the sidebar omit-set, page-title, reading-time or
\* social-preview patch, on any artifact, the same call once more leaves the
\* artifact byte-identical.
C6_PerBuildPatchesIdempotent ==
    lastOp \in PerBuildPatches => Reapplied = disk

\* C7: after a call of patch_typography_fonts, the same call once more
\* reports no change and leaves the artifact byte-identical.
C7_TypographyIdempotent ==
    lastOp = "patch_typography_fonts" =>
        /\ ~patch_typography_fonts(disk, lastArg.header, lastArg.body,
                                   lastArg.code).changed
        /\ Reapplied = disk

\* C8: after a call of apply_color_scheme_to_quartz_config, the same call
\* once more leaves quartz.config.ts byte-identical.
C8_ColorSchemeConverges ==
    lastOp = "apply_color_scheme_to_quartz_config" => Reapplied = disk

\* C9: after a call of patch_render_page_transclude_title, another call
\* changes nothing in renderPage.tsx, whatever other "h1" literals it holds.
C9_TranscludeTitleIdempotent ==
    lastOp = "patch_render_page_transclude_title" => Reapplied = disk

\* The name shown is the item with one trailing ".md" taken off, and is the
\* item when it has none.
StrippedOnce(item, shown) ==
    /\ shown.stem = item.stem
    /\ IF item.exts # <<>> /\ item.exts[Len(item.exts)] = ".md"
       THEN shown.exts \o <<".md">> = item.exts
       ELSE shown.exts = item.exts

OmitDeclarations == {i \in 1..Len(disk) : disk[i].k = "omit"}

\* C10: after update_quartz_layout with hidden list H the artifact holds an
\* omit-set declaration, and every declaration in it lists the names of H in
\* their order, each with one trailing ".md" taken off and otherwise as it is.
C10_OmitSetListsHidden ==
    lastOp = "update_quartz_layout" =>
        /\ OmitDeclarations # {}
        /\ \A i \in OmitDeclarations :
              /\ Len(disk[i].v) = Len(lastArg.hidden)
              /\ \A j \in 1..Len(lastArg.hidden) :
                    StrippedOnce(lastArg.hidden[j], disk[i].v[j])

\* C10 witness: the artifact of setup, with its two declarations written
\* with a generic, patched with the hidden list Notes.md, Media.
C10_Witness ==
    /\ lastOp = "update_quartz_layout"
    /\ patches = 1
    /\ lastArg.hidden = <<Name("Notes", <<".md">>), Name("Media", <<>>)>>
    /\ Cardinality(OmitDeclarations) = 2
    /\ \A i \in OmitDeclarations :
          disk[i].v = <<Name("Notes", <<>>), Name("Media", <<>>)>>

\* The text without its tokens from index i to index j.
Without(text, i, j) == Slice(text, 1, i - 1) \o Slice(text, j + 1, Len(text))

\* Index p of the text is right after the import block: the imports, with
\* their ";" and the white space around them, are all there is before it.
\* Without imports that is the top of the text.
AfterImportBlock(text, p) ==
    /\ \A i \in 1..(p - 1) : text[i].k \in {"import", "semi", "ws", "nl"}
    /\ \A i \in p..Len(text) : text[i].k # "import"
    /\ (\A i \in 1..Len(text) : text[i].k # "import") => p = 1

\* C11: when the layout has no omit-set declaration, after
\* ensure_quartz_layout_anchor and update_quartz_layout it holds exactly one,
\* listing the hidden names, on a line of its own right after the import
\* block (at the top without imports), and the rest is the original text.
C11_AnchorSelfHealing ==
    (lastOp = "ensure_quartz_layout_anchor" /\ ~HasOmitText(diskBefore)) =>
        /\ Cardinality(OmitDeclarations) = 1
        /\ \A p \in OmitDeclarations :
              /\ disk[p].v = normalized_hidden(lastArg.hidden)
              /\ KindAt(disk, p + 1) = "nl"
              /\ AfterImportBlock(disk, p)
              /\ \/ Without(disk, p, p + 1) = diskBefore
                 \/ KindAt(disk, p - 1) = "nl" /\ Without(disk, p - 1, p + 1) = diskBefore

\* The value is a string with a glyph in it.
HasGlyph(value) == value.t = "str" /\ value.glyph # ""

\* The emojis record is well formed for section n: an object whose default
\* and whose value for the section are strings or absent.
WellFormed(emojis, n) ==
    /\ emojis.kind = "dict"
    /\ emojis.sections.kind # "other"
    /\ emojis.default.t # "num"
    /\ SectionEmoji(emojis.sections.of, n).t # "num"

\* The emoji of the stated precedence: the section's own, else the
\* course's default, else the fallback; the fallback for a record that is
\* missing or not well formed.
PrecedenceEmoji(emojis, n) ==
    IF ~WellFormed(emojis, n) THEN FallbackEmoji
    ELSE IF HasGlyph(SectionEmoji(emojis.sections.of, n))
         THEN SectionEmoji(emojis.sections.of, n).glyph
    ELSE IF HasGlyph(emojis.default) THEN emojis.default.glyph
    ELSE FallbackEmoji

\* C12: after the title step the title reads "<emoji> <COURSE CODE in upper
\* case> S<section_number>", the emoji being the section's own when it has
\* one, else the course default when there is one, else the fallback glyph.
C12_PageTitle ==
    lastOp = "resolve_section_emoji" =>
        \A i \in 1..Len(disk) :
            disk[i].k = "title" =>
                disk[i] = Tok("title",
                              <<PrecedenceEmoji(lastArg.emojis, lastArg.n), "ICS3U">>,
                              lastArg.n)

(***************************************************************************)
(* setup_course.py: the prompts of the wizard that fill the lists of       *)
(* course_config.json.  A name is [stem, exts] as above.  An answer is     *)
(* [blank, typed]: blank for the Enter key alone, else what was typed.      *)
(***************************************************************************)
Folder(stem) == Name(stem, <<>>)
Markdown(stem) == Name(stem, <<".md">>)
Media == Folder("Media")

\* The default lists, abridged to the names the model follows.
DEFAULT_SHARED_FOLDERS == <<Folder("Concepts"), Media, Folder("Ontario Curriculum"), Folder("Tasks")>>
DEFAULT_SHARED_FILES == <<Markdown("Learning Goals")>>
DEFAULT_PER_SECTION_FOLDERS == <<Folder("All Classes")>>
DEFAULT_PER_SECTION_FILES == <<Markdown("Key Links")>>
DefaultHidden ==
    <<Media, Folder("Ontario Curriculum"), Markdown("Learning Goals"), Markdown("Key Links")>>
DefaultExpandable == <<Folder("Concepts"), Folder("Tasks")>>

\* The items of the list.
Items(list) == {list[i] : i \in 1..Len(list)}

\* name + ".md" if add_md_extension and not name.endswith(".md") else name
WithMd(name, add_md_extension) ==
    IF add_md_extension /\ (name.exts = <<>> \/ name.exts[Len(name.exts)] # ".md")
    THEN [name EXCEPT !.exts = @ \o <<".md">>]
    ELSE name

\* prompt_type_list(prompt_text, default_list, add_md_extension,
\* forbidden_names) for the answer `entry`.
prompt_type_list(entry, default_list, add_md_extension, forbidden_names) ==
    IF entry.blank
    THEN SelectSeq(default_list, LAMBDA x : x \notin forbidden_names)
    ELSE LET kept == SelectSeq(entry.typed, LAMBDA x : x \notin forbidden_names)
         IN [i \in 1..Len(kept) |-> WithMd(kept[i], add_md_extension)]

\* prompt_select_multiple(prompt_text, options, default_selection) for the
\* answer `selection`.  A blank answer gives the default selection as it
\* is.
prompt_select_multiple(selection, options, default_selection) ==
    IF selection.blank THEN default_selection
    ELSE LET valid == SelectSeq(selection.typed, LAMBDA i : 1 <= i /\ i <= Len(options))
         IN [j \in 1..Len(valid) |-> options[valid[j]]]

\* saved_config.get(key, default)
SavedOr(key, default) == IF saved_config.exists THEN saved_config[key] ELSE default

\* The list prompts of setup_course() up to the written configuration, for
\* the six answers.
WrittenConfig(a) ==
    LET shared_default_filtered ==
            SelectSeq(SavedOr("shared_folders", DEFAULT_SHARED_FOLDERS), LAMBDA x : x # Media)
        shared_folders == prompt_type_list(a.shared_folders, shared_default_filtered, FALSE, {Media})
        shared_files == prompt_type_list(a.shared_files,
                            SavedOr("shared_files", DEFAULT_SHARED_FILES), TRUE, {})
        per_section_folders == prompt_type_list(a.per_section_folders,
                            SavedOr("per_section_folders", DEFAULT_PER_SECTION_FOLDERS),
                            FALSE, {Media})
        per_section_files == prompt_type_list(a.per_section_files,
                            SavedOr("per_section_files", DEFAULT_PER_SECTION_FILES), TRUE, {})
        all_selected == shared_folders \o shared_files \o per_section_folders \o per_section_files
        default_hidden == SavedOr("hidden", DefaultHidden)
        hidden_items == prompt_select_multiple(a.hidden, all_selected, default_hidden)
        visible_items == SelectSeq(all_selected, LAMBDA item : item \notin Items(hidden_items))
        default_expandable == SavedOr("expandable", DefaultExpandable)
        expandable_items == prompt_select_multiple(a.expandable, visible_items, default_expandable)
    IN [exists |-> TRUE,
        shared_folders |-> shared_folders,
        shared_files |-> shared_files,
        per_section_folders |-> per_section_folders,
        per_section_files |-> per_section_files,
        hidden |-> IF Media \in Items(hidden_items) THEN hidden_items
                   ELSE Append(hidden_items, Media),
        expandable |-> expandable_items]

(***************************************************************************)
(* SpecSetup: setup_course.py run again and again on one course, each run  *)
(* with its own answers, starting without a configuration.                 *)
(***************************************************************************)
Blank == [blank |-> TRUE, typed |-> <<>>]
Typed(x) == [blank |-> FALSE, typed |-> x]

FolderAnswers ==
    {Blank, Typed(<<Folder("Concepts")>>), Typed(<<Folder("Tasks"), Media>>)}
FileAnswers == {Blank, Typed(<<Folder("Notes")>>)}
SelectAnswers == {Blank, Typed(<<1>>), Typed(<<2, 1>>), Typed(<<3, 9>>)}

Answers ==
    [shared_folders : FolderAnswers, shared_files : FileAnswers,
     per_section_folders : {Blank}, per_section_files : {Blank},
     hidden : SelectAnswers, expandable : SelectAnswers]

InitSetup ==
    /\ saved_config = NoConfig
    /\ FmIdle
    /\ MergeIdle
    /\ PatchIdle
    /\ EmojiIdle
    /\ BuildIdle
    /\ FooterIdle
    /\ SectionsIdle
    /\ BackupIdle

SetupCourse ==
    /\ \E a \in Answers : saved_config' = WrittenConfig(a)
    /\ UNCHANGED <<fmVars, mergeVars, patchVars, emojiVars, buildVars, footerVars, sectionsVars, backupVars>>

NextSetup == SetupCourse

SpecSetup == InitSetup /\ [][NextSetup]_vars

\* The names selected for the site.
AllSelected(cfg) ==
    Items(cfg.shared_folders) \cup Items(cfg.shared_files)
    \cup Items(cfg.per_section_folders) \cup Items(cfg.per_section_files)

\* C13: in every configuration that setup_course writes the hidden list is
\* a subset of the union of the four lists of selected names.
C13_HiddenSubset ==
    saved_config.exists => Items(saved_config.hidden) \subseteq AllSelected(saved_config)

\* C14: in every configuration that setup_course writes no item is both
\* expandable and hidden.
C14_ExpandableHiddenDisjoint ==
    saved_config.exists =>
        Items(saved_config.expandable) \cap Items(saved_config.hidden) = {}

(***************************************************************************)
(* prompt_single_emoji of setup_course.py.  A typed string is a sequence   *)
(* of characters, each one of the classes that the code tells apart:       *)
(*   sym      a symbol that is neither a letter nor a digit, as an emoji   *)
(*   letter   a letter                                                     *)
(*   d0 d1 d3 the ASCII digits 0, 1 and 3                                  *)
(*   circled  a digit that str.isdigit accepts and int() does not, as the  *)
(*            circled digit one                                            *)
(*   space    white space                                                  *)
(*   vs zwj tone   a variation selector, the zero-width joiner, a          *)
(*            skin-tone modifier                                           *)
(***************************************************************************)
Chars == {"sym", "letter", "d0", "d1", "d3", "circled", "space", "vs", "zwj", "tone"}
MaxTyped == 2
TypedStrings == UNION {[1..n -> Chars] : n \in 0..MaxTyped}

\* s.strip()
RECURSIVE Strip(_)
Strip(str) ==
    IF str = <<>> THEN str
    ELSE IF Head(str) = "space" THEN Strip(Tail(str))
    ELSE IF str[Len(str)] = "space" THEN Strip(SubSeq(str, 1, Len(str) - 1))
    ELSE str

\* ch.isalnum() and ch.isdigit()
IsAlnum(ch) == ch \in {"letter", "d0", "d1", "d3", "circled"}
IsDigit(ch) == ch \in {"d0", "d1", "d3", "circled"}

\* s.isdigit()
IsDigitString(str) == str # <<>> /\ \A i \in 1..Len(str) : IsDigit(str[i])

\* int(s) for a string of ASCII digits.
DigitValue(ch) == IF ch = "d0" THEN 0 ELSE IF ch = "d1" THEN 1 ELSE 3
RECURSIVE IntOf(_)
IntOf(str) ==
    IF str = <<>> THEN 0
    ELSE 10 * IntOf(SubSeq(str, 1, Len(str) - 1)) + DigitValue(str[Len(str)])

\* int(s) raises ValueError.
IntRaises(str) == \E i \in 1..Len(str) : str[i] = "circled"

\* _looks_like_single_emoji(s)
_looks_like_single_emoji(str) ==
    LET t == Strip(str)
        base == {i \in 1..Len(t) : t[i] \notin {"vs", "zwj", "tone"}}
    IN /\ t # <<>>
       /\ \A i \in 1..Len(t) : t[i] # "space"
       /\ \A i \in 1..Len(t) : ~IsAlnum(t[i])
       /\ Cardinality(base) = 1

Ended(kind, n, text) == [kind |-> kind, n |-> n, text |-> text]

\* prompt_single_emoji(prompt_text, default_emoji) for the line typed at the
\* menu and, when the menu answer is 13, the line typed at the custom
\* prompt: the default, preset number n, the custom text, or an exception
\* that nothing catches.
prompt_single_emoji(menu, custom_line) ==
    LET choice == Strip(menu)
        custom == Strip(custom_line)
    IN IF choice = <<>> THEN Ended("default", 0, <<>>)
       ELSE IF IsDigitString(choice) /\ IntRaises(choice) THEN Ended("raised", 0, <<>>)
       ELSE IF IsDigitString(choice) /\ 1 <= IntOf(choice) /\ IntOf(choice) <= 12
            THEN Ended("preset", IntOf(choice), <<>>)
       ELSE IF IsDigitString(choice) /\ IntOf(choice) = 13
            THEN (IF _looks_like_single_emoji(custom) THEN Ended("custom", 0, custom)
                  ELSE Ended("default", 0, <<>>))
       ELSE IF _looks_like_single_emoji(choice) THEN Ended("custom", 0, choice)
       ELSE Ended("default", 0, <<>>)

(***************************************************************************)
(* SpecEmoji: one call of prompt_single_emoji for any typed lines.         *)
(***************************************************************************)
\* The menu answer asks for the custom prompt.
AsksCustom(menu) ==
    IsDigitString(Strip(menu)) /\ ~IntRaises(Strip(menu)) /\ IntOf(Strip(menu)) = 13

InitEmoji ==
    /\ emojiChoice \in TypedStrings
    /\ emojiCustom \in (IF AsksCustom(emojiChoice) THEN TypedStrings ELSE {<<>>})
    /\ emojiResult = Ended("pending", 0, <<>>)
    /\ FmIdle
    /\ MergeIdle
    /\ PatchIdle
    /\ SetupIdle
    /\ BuildIdle
    /\ FooterIdle
    /\ SectionsIdle
    /\ BackupIdle

PromptSingleEmoji ==
    /\ emojiResult.kind = "pending"
    /\ emojiResult' = prompt_single_emoji(emojiChoice, emojiCustom)
    /\ UNCHANGED <<emojiChoice, emojiCustom, fmVars, mergeVars, patchVars, setupVars, buildVars, footerVars, sectionsVars, backupVars>>

NextEmoji == PromptSingleEmoji

SpecEmoji == InitEmoji /\ [][NextEmoji]_vars

\* The candidate emoji of the call: the custom line when the menu answer is
\* 13, else the menu line itself; without the white space around it.
Candidate ==
    IF AsksCustom(emojiChoice) THEN Strip(emojiCustom) ELSE Strip(emojiChoice)

\* A single glyph: no white space, no letter or digit, and one base code
\* point besides variation selectors, joiners and skin-tone modifiers.
SingleGlyph(str) ==
    /\ \A i \in 1..Len(str) : str[i] \notin {"space", "letter", "d0", "d1", "d3", "circled"}
    /\ Cardinality({i \in 1..Len(str) : str[i] \in {"sym"}}) = 1

\* The menu answer is one of the numbers 1..12 of the presets.
PresetNumber ==
    /\ IsDigitString(Strip(emojiChoice))
    /\ ~IntRaises(Strip(emojiChoice))
    /\ IntOf(Strip(emojiChoice)) \in 1..12

\* C15: prompt_single_emoji returns the typed emoji exactly when it is a
\* single glyph; every other input that is not a preset number is rejected
\* and the default emoji is returned.
C15_EmojiValidation ==
    emojiResult.kind # "pending" =>
        IF PresetNumber THEN emojiResult.kind = "preset"
        ELSE IF SingleGlyph(Candidate)
             THEN emojiResult.kind = "custom" /\ emojiResult.text = Candidate
        ELSE emojiResult.kind = "default"


(***************************************************************************)
(* Missing optional sources of the merge (SpecMerge)                       *)
(***************************************************************************)
\* The configured items of the last build that are not on disk, each as the
\* pair that names it in a printed line.
MissingItems ==
    {[folder |-> config.shared_folders[i], file |-> NoFile] :
        i \in {j \in 1..Len(config.shared_folders) :
                  Walk(courseDir, config.shared_folders[j]) = {}}}
    \cup {[folder |-> "", file |-> config.shared_files[i]] :
        i \in {j \in 1..Len(config.shared_files) :
                  config.shared_files[j] \notin DOMAIN courseDir}}
    \cup {[folder |-> config.per_section_folders[i], file |-> NoFile] :
        i \in {j \in 1..Len(config.per_section_folders) :
                  Walk(sectionDir, config.per_section_folders[j]) = {}}}
    \cup {[folder |-> "", file |-> config.per_section_files[i]] :
        i \in {j \in 1..Len(config.per_section_files) :
                  config.per_section_files[j] \notin DOMAIN sectionDir}}

\* A warning line about the item was printed.
WarnedAbout(item) ==
    \E m \in printed : m.warning /\ m.folder = item.folder /\ m.file = item.file

\* The merge went on after the missing items and took nothing from them:
\* the content folder holds what the items on disk supply, and only that.
MissingContributeNothing == DOMAIN content = ExpectedPaths

(* C18: for every configured shared folder, shared file, per-section       *)
(* folder or per-section file that is not on disk, the merge prints a      *)
(* warning about the item, goes on with every later merge step, and puts   *)
(* no file in the content folder for it.                                   *)
C18_MissingOptionalSource ==
    fresh =>
        /\ MissingContributeNothing
        /\ \A item \in MissingItems : WarnedAbout(item)


(***************************************************************************)
(* build_section_site step by step (SpecBuild)                             *)
(*                                                                         *)
(* A call is followed as the sequence of the steps it executes.  The       *)
(* scaffold's files are kept as what each patched value holds, not as      *)
(* text: SpecPatch follows the text.  One step of a call may meet a        *)
(* failure of its artifact: the file cannot be read, the pattern is not    *)
(* found in it, or the write is rejected.  The course is followed up to    *)
(* the first call that meets such a failure.                               *)
(***************************************************************************)
\* Lines 1019-1055: the patches of the scaffold branch that take no value
\* from course_config.json, in the order of the calls.
LifetimePatches ==
    <<"remove_graph_from_right", "install_locales",
      "adjust_created_modified_priority", "patch_folder_page_title",
      "patch_folder_content_defaults", "patch_date_format",
      "patch_list_page_meta_width", "patch_internal_link_highlight",
      "append_transclusion_styles", "patch_render_page_transclude_title">>

\* Lines 1002-1071: the steps of the branch `full_rebuild or not
\* output_dir.exists()`; rmtree only when the directory is there, the
\* typography patch only when the configuration selects fonts.
ScaffoldSteps(existed, cfg) ==
    (IF existed THEN <<"rmtree">> ELSE <<>>)
    \o <<"mkdir", "copy_scaffold">>
    \o LifetimePatches
    \o (IF cfg.fonts # "none" THEN <<"patch_typography_fonts">> ELSE <<>>)

\* Lines 1086-1145: the content merge and the copy of course_config.json.
MergeSteps ==
    <<"clear_content", "copy_section_index", "copy_shared_folders",
      "copy_shared_files", "copy_section_folders", "copy_section_files",
      "copy_course_config">>

\* Lines 1080-1206: the steps every call that passed the checks goes
\* through; the colour patch only when a scheme is chosen and found.
\* install_dependencies is lines 1186-1202: npm install when needs_install.
AlwaysSteps(cfg) ==
    <<"patch_content_meta_options", "install_patched_backlinks">>
    \o MergeSteps
    \o <<"ensure_quartz_layout_anchor", "update_quartz_layout",
         "inject_custom_footer_components", "update_page_title">>
    \o (IF cfg.scheme # "none"
        THEN <<"apply_color_scheme_to_quartz_config">> ELSE <<>>)
    \o <<"toggle_custom_og_images", "kill_existing_quartz",
         "install_dependencies", "quartz_build_serve">>

\* Line 1002.
Reinstall(full_rebuild, existed) == full_rebuild \/ ~existed

\* The steps of a call that passed the checks of lines 970-978.
StepsOf(full_rebuild, existed, cfg) ==
    (IF Reinstall(full_rebuild, existed) THEN ScaffoldSteps(existed, cfg) ELSE <<>>)
    \o AlwaysSteps(cfg)

\* The patch functions whose body is inside try/except Exception.
Guarded ==
    {LifetimePatches[i] : i \in 1..Len(LifetimePatches)}
    \cup {"patch_typography_fonts", "patch_content_meta_options",
          "install_patched_backlinks"}

\* The patch functions that read and write with no try/except around.
Unguarded ==
    {"ensure_quartz_layout_anchor", "update_quartz_layout",
     "inject_custom_footer_components", "update_page_title",
     "apply_color_scheme_to_quartz_config", "toggle_custom_og_images"}

PatchOperations == Guarded \cup Unguarded

NoFault == [step |-> "none", kind |-> "none"]
FaultKinds == {"unreadable", "unmatched", "rejected_write"}

\* The step fails: its artifact has the fault, or (lines 481-492) the
\* footer replacement is a template re.sub rejects, which is the case when
\* footer_html holds a backslash followed by a letter.
Fails(step, cfg, f) ==
    \/ f.step = step
    \/ step = "inject_custom_footer_components" /\ cfg.footer_html = "backslash"

\* The failure leaves the function as an exception.  An unguarded function
\* raises from open(); its write goes through `tee`, whose exit status is
\* only printed, except ensure_quartz_layout_anchor, which uses write_text.
\* A pattern that is not found raises nowhere.
Raises(step, cfg, f) ==
    /\ step \in Unguarded
    /\ \/ f.step = step /\ f.kind = "unreadable"
       \/ f.step = step /\ f.kind = "rejected_write"
             /\ step = "ensure_quartz_layout_anchor"
       \/ step = "inject_custom_footer_components" /\ cfg.footer_html = "backslash"

\* quartz of a section without output directory.
NoScaffold ==
    [fonts |-> "absent", reading |-> "absent", title |-> "absent",
     colors |-> "absent", og |-> "absent", patched |-> {}]

\* Lines 1009-1017: the files as /opt/quartz has them.
PristineScaffold ==
    [fonts |-> "default", reading |-> "default", title |-> "default",
     colors |-> "default", og |-> "default", patched |-> {}]

\* What the values read from course_config.json and the command line ask of
\* the scaffold.
ReadingOf(cfg) == IF cfg.show_reading_time THEN "shown" ELSE "hidden"
OgOf(previews) == IF previews THEN "enabled" ELSE "disabled"

\* The scaffold after one step that met no failure.  A patch of a file
\* that was never copied finds no file and changes nothing.
Effect(step, q, cfg, previews) ==
    CASE step = "rmtree" -> NoScaffold
      [] step = "copy_scaffold" -> PristineScaffold
      [] q = NoScaffold -> q
      [] step \in {LifetimePatches[i] : i \in 1..Len(LifetimePatches)} ->
            [q EXCEPT !.patched = @ \cup {step}]
      [] step = "patch_typography_fonts" -> [q EXCEPT !.fonts = cfg.fonts]
      [] step = "patch_content_meta_options" -> [q EXCEPT !.reading = ReadingOf(cfg)]
      [] step = "update_page_title" -> [q EXCEPT !.title = "section"]
      [] step = "apply_color_scheme_to_quartz_config" -> [q EXCEPT !.colors = cfg.scheme]
      [] step = "toggle_custom_og_images" -> [q EXCEPT !.og = OgOf(previews)]
      [] OTHER -> q

\* The steps in order until one raises: the scaffold they leave, the steps
\* entered, and whether the call ended in an exception.
RECURSIVE RunFrom(_, _, _, _, _, _)
RunFrom(i, steps, q, cfg, previews, f) ==
    IF i > Len(steps) THEN [quartz |-> q, ran |-> steps, raised |-> FALSE]
    ELSE IF Raises(steps[i], cfg, f)
         THEN [quartz |-> q, ran |-> SubSeq(steps, 1, i), raised |-> TRUE]
         ELSE RunFrom(i + 1, steps,
                      IF Fails(steps[i], cfg, f) THEN q
                      ELSE Effect(steps[i], q, cfg, previews),
                      cfg, previews, f)

Run(steps, q, cfg, previews, f) == RunFrom(1, steps, q, cfg, previews, f)

\* Lines 959-965: a merged_output directory is renamed to .merged_output
\* when no .merged_output exists.
Migrated(t) ==
    IF t.visible_output_root /\ ~t.hidden_output_root
    THEN [t EXCEPT !.visible_output_root = FALSE, !.hidden_output_root = TRUE]
    ELSE t

\* Lines 970-978.
MissingRequired(t) == ~t.course_dir \/ ~t.section_dir \/ ~t.config_file

\* The course on disk before the first call: nothing exists without the
\* course directory, and the section has no output directory yet (a
\* merged_output or .merged_output may be there from another section).
Trees ==
    {t \in [course_dir : BOOLEAN, section_dir : BOOLEAN, config_file : BOOLEAN,
            visible_output_root : BOOLEAN, hidden_output_root : BOOLEAN,
            output_dir : {FALSE}] :
        ~t.course_dir => ~(t.section_dir \/ t.config_file
                             \/ t.visible_output_root \/ t.hidden_output_root)}

\* The values of course_config.json a build reads beside the four lists.
CourseConfigs ==
    [show_reading_time : BOOLEAN, scheme : {"none", "dusk"},
     fonts : {"none", "serif"},
     footer_html : {"plain", "backslash"}]

\* The patch functions followed under a failure: the unguarded ones, and of
\* the guarded ones the typography patch, one other patch of the scaffold
\* branch and the reading-time patch.
FaultSteps ==
    Unguarded \cup {"patch_typography_fonts", "patch_date_format",
                    "patch_content_meta_options"}

\* The failures one call may meet: none, or one patch function's artifact.
Faults ==
    {NoFault} \cup [step : FaultSteps, kind : FaultKinds]

NoArgs == [full_rebuild |-> FALSE, previews |-> FALSE]

InitBuild ==
    /\ tree \in Trees
    /\ treeBefore = tree
    /\ course_config \in {c \in CourseConfigs : c.footer_html = "plain"}
    /\ quartz = NoScaffold
    /\ ran = <<>>
    /\ outcome = "none"
    /\ buildArgs = NoArgs
    /\ fault = NoFault
    /\ FmIdle
    /\ MergeIdle
    /\ PatchIdle
    /\ SetupIdle
    /\ EmojiIdle
    /\ FooterIdle
    /\ SectionsIdle
    /\ BackupIdle

\* The teacher runs setup_course.py again, or edits course_config.json: one
\* value changes.  The record of the last call is dropped.
EditCourseConfig ==
    /\ fault = NoFault
    /\ tree.config_file
    /\ \E c \in CourseConfigs :
          /\ Cardinality({k \in DOMAIN c : c[k] # course_config[k]}) = 1
          /\ course_config' = c
    /\ ran' = <<>>
    /\ outcome' = "none"
    /\ buildArgs' = NoArgs
    /\ fault' = NoFault
    /\ treeBefore' = tree
    /\ UNCHANGED <<tree, quartz, fmVars, mergeVars, patchVars, setupVars, emojiVars, footerVars, sectionsVars, backupVars>>

\* build_section_site(course_code, section_number, include_social_media_previews,
\* force_npm_install, full_rebuild).
BuildSectionSiteSteps(full_rebuild, previews, f) ==
    /\ fault = NoFault
    /\ \E t \in {Migrated(tree)} :
       \E steps \in {StepsOf(full_rebuild, t.output_dir, course_config)} :
          /\ treeBefore' = tree
          /\ buildArgs' = [full_rebuild |-> full_rebuild, previews |-> previews]
          /\ IF MissingRequired(t)
             THEN /\ f = NoFault
                  /\ tree' = t
                  /\ ran' = <<>>
                  /\ outcome' = "returned_error"
                  /\ fault' = NoFault
                  /\ UNCHANGED quartz
             ELSE /\ f.step \in {"none"} \cup {steps[i] : i \in 1..Len(steps)}
                  /\ \E r \in {Run(steps, quartz, course_config, previews, f)} :
                        /\ tree' = [t EXCEPT !.hidden_output_root = TRUE,
                                             !.output_dir = TRUE]
                        /\ ran' = r.ran
                        /\ outcome' = IF r.raised THEN "raised" ELSE "completed"
                        /\ fault' = f
                        /\ quartz' = r.quartz
    /\ UNCHANGED <<course_config, fmVars, mergeVars, patchVars, setupVars, emojiVars, footerVars, sectionsVars, backupVars>>

\* The steps of the scaffold branch during which the calls followed are
\* interrupted: the copy of /opt/quartz, one of the fixed patches, and the
\* typography patch that ends the branch.
InterruptedDuring == {"copy_scaffold", "patch_date_format", "patch_typography_fonts"}

\* build_section_site is interrupted (Ctrl-C, the container is stopped) in
\* the branch of line 1002, after output_dir.mkdir of line 1006 and during
\* step k of the branch: the steps before k have run, the copy that was
\* under way has copied nothing the model follows.
InterruptedBuild(full_rebuild, previews, k) ==
    /\ fault = NoFault
    /\ \E t \in {Migrated(tree)} :
          /\ ~MissingRequired(t)
          /\ Reinstall(full_rebuild, t.output_dir)
          /\ \E steps \in {ScaffoldSteps(t.output_dir, course_config)} :
                /\ k \in 1..Len(steps)
                /\ steps[k] \in InterruptedDuring
                /\ \E r \in {Run(SubSeq(steps, 1, k - 1), quartz, course_config,
                                  previews, NoFault)} :
                      /\ quartz' = r.quartz
                      /\ ran' = SubSeq(steps, 1, k)
          /\ tree' = [t EXCEPT !.hidden_output_root = TRUE, !.output_dir = TRUE]
    /\ treeBefore' = tree
    /\ buildArgs' = [full_rebuild |-> full_rebuild, previews |-> previews]
    /\ outcome' = "interrupted"
    /\ fault' = NoFault
    /\ UNCHANGED <<course_config, fmVars, mergeVars, patchVars, setupVars, emojiVars, footerVars, sectionsVars, backupVars>>

NextBuild ==
    \/ EditCourseConfig
    \/ \E full_rebuild \in BOOLEAN, previews \in BOOLEAN, k \in 1..(Len(LifetimePatches) + 4) :
          InterruptedBuild(full_rebuild, previews, k)
    \/ \E full_rebuild \in BOOLEAN, previews \in BOOLEAN, f \in Faults :
          BuildSectionSiteSteps(full_rebuild, previews, f)

SpecBuild == InitBuild /\ [][NextBuild]_vars


(***************************************************************************)
(* Properties of build_section_site (SpecBuild)                            *)
(***************************************************************************)
\* The step is among those the last call executed.
Ran(step) == \E i \in 1..Len(ran) : ran[i] = step

\* The last call went through to the preview and met no failure.
CompletedCleanly == outcome = "completed" /\ fault = NoFault

\* The last call found the section's scaffold directory.
ScaffoldExisted == Migrated(treeBefore).output_dir

\* The last call took the branch of line 1002.
Reinstalled == Reinstall(buildArgs.full_rebuild, ScaffoldExisted)

\* The patches applied once per scaffold: the ten fixed ones, and the
\* typography patch.
ScaffoldLifetimePatches ==
    {LifetimePatches[i] : i \in 1..Len(LifetimePatches)} \cup {"patch_typography_fonts"}

\* The scaffold shows what the latest configuration and command line ask
\* for reading time, title, colours and social previews.
ReflectsConfiguration ==
    /\ quartz.reading = ReadingOf(course_config)
    /\ quartz.title = "section"
    /\ quartz.og = OgOf(buildArgs.previews)
    /\ quartz.colors = IF course_config.scheme = "none" THEN "default"
                       ELSE course_config.scheme

(* C16: the scaffold is installed again, with every scaffold-lifetime      *)
(* patch, exactly when full_rebuild is set or the section has no scaffold  *)
(* directory; a call that reuses the scaffold applies no scaffold-lifetime *)
(* patch, still merges the content and applies the reading-time, title,    *)
(* colour and social-preview patches, and the scaffold then shows the      *)
(* latest configuration.                                                   *)
C16_FullRebuildOrReuse ==
    CompletedCleanly =>
        /\ Ran("copy_scaffold") <=> Reinstalled
        /\ Reinstalled =>
              \A p \in ScaffoldLifetimePatches :
                 (p = "patch_typography_fonts" => course_config.fonts # "none")
                 => Ran(p)
        /\ ~Reinstalled =>
              /\ \A p \in ScaffoldLifetimePatches : ~Ran(p)
              /\ \A i \in 1..Len(MergeSteps) : Ran(MergeSteps[i])
              /\ Ran("patch_content_meta_options")
              /\ Ran("update_page_title")
              /\ Ran("toggle_custom_og_images")
              /\ course_config.scheme # "none" => Ran("apply_color_scheme_to_quartz_config")
              /\ ReflectsConfiguration

\* C16 for the calls whose configuration chooses a colour scheme, on a
\* scaffold whose files were copied.
C16_SchemeChosen ==
    (course_config.scheme # "none" /\ quartz # NoScaffold) => C16_FullRebuildOrReuse

(* C17: a call that finds the course directory, the section directory or   *)
(* course_config.json missing reports the error and returns with the       *)
(* course's directories as they were, merged_output and .merged_output     *)
(* included, the scaffold untouched and no step executed.                  *)
C17_MissingRequiredSource ==
    outcome = "returned_error" =>
        /\ tree = treeBefore
        /\ ran = <<>>

(* C19: a failure inside one patch operation of a call (its artifact       *)
(* cannot be read, its pattern is not found, its write is rejected, or     *)
(* computing the replacement raises) does not end the call: every step of  *)
(* the call, the later patches and merge steps included, is executed.      *)
C19_FailureIsolation ==
    outcome \in {"completed", "raised"} =>
        ran = StepsOf(buildArgs.full_rebuild, ScaffoldExisted, course_config)


(***************************************************************************)
(* The typography declaration after patch_typography_fonts (SpecPatch)     *)
(***************************************************************************)
HasTheme(text) == BlockOpen(text, 0, "theme") # 0

\* The "{" and the "}" of the typography declaration, 0 without one.
TypographyOpen(text) == BlockOpen(text, 0, "typography")
TypographyClose(text) ==
    IF TypographyOpen(text) = 0 THEN 0
    ELSE FirstAfter(text, TypographyOpen(text), "rbrace")

\* The quote that ends the string opened at index q: the first one that no
\* backslash escapes.
StringEnd(text, q) ==
    LET ends == {j \in (q + 1)..Len(text) :
                    text[j].k = "quote" /\ text[j - 1].k # "bs"}
    IN IF ends = {} THEN 0 ELSE CHOOSE j \in ends : \A m \in ends : j <= m

\* The family the typography declaration gives to the field, as written
\* between its quotes; <<T("undeclared")>> when the declaration has no such
\* field.
DeclaredFont(text, field) ==
    LET b == TypographyOpen(text)
        c == TypographyClose(text)
        at == {j \in (b + 1)..(c - 1) :
                  /\ text[j].k = "field" /\ text[j].v = <<field>>
                  /\ KindAt(text, SkipSpace(text, j) + 1) = "quote"
                  /\ StringEnd(text, SkipSpace(text, j) + 1) \in 1..(c - 1)}
        j == CHOOSE j \in at : \A m \in at : j <= m
        q == SkipSpace(text, j) + 1
    IN IF b = 0 \/ c = 0 \/ at = {} THEN <<T("undeclared")>>
       ELSE Slice(text, q + 1, StringEnd(text, q) - 1)

\* The text around the typography declaration (the whole text without
\* one), white space aside: the declaration runs from the word typography
\* to its "}" and the comma after it.
OutsideTypography(text) ==
    LET b == TypographyOpen(text)
        c == TypographyClose(text)
        start == CHOOSE t \in 1..Len(text) :
                    text[t].k = "typography" /\ SkipSpace(text, t) + 1 = b
        e == SkipSpace(text, c)
        last == IF KindAt(text, e + 1) = "comma" THEN e + 1 ELSE e
        around == IF b = 0 \/ c = 0 THEN text
                  ELSE Slice(text, 1, start - 1) \o Slice(text, last + 1, Len(text))
    IN SelectSeq(around, LAMBDA t : ~IsSpace(t.k))

(* C20: for an artifact with a theme declaration, after                    *)
(* patch_typography_fonts the typography declaration gives header, body    *)
(* and code the requested families, also when the block it found lacked    *)
(* one of the three fields; the text outside the typography declaration is *)
(* as it was; and the call reports a change.                               *)
C20_TypographyTiers ==
    (lastOp = "patch_typography_fonts" /\ HasTheme(diskBefore)) =>
        /\ \A field \in {"header", "body", "code"} :
              DeclaredFont(disk, field) = _escape_font(lastArg[field])
        /\ OutsideTypography(disk) = OutsideTypography(diskBefore)
        /\ reported


(***************************************************************************)
(* The colours block after apply_color_scheme_to_quartz_config (SpecPatch) *)
(***************************************************************************)
\* The nesting depth at index j counted from the "{" at index b.
BraceDepth(text, b, j) ==
    Cardinality({m \in b..j : text[m].k = "lbrace"})
    - Cardinality({m \in b..j : text[m].k = "rbrace"})

\* The colours span of the text: from the word colors to the "}" that
\* brings the depth of its "{" back to 0, and the comma right after it.
\* from = 0 when the text has no such span.
ColorsSpan(text) ==
    LET b == BlockOpen(text, 0, "colors")
        closes == {j \in (b + 1)..Len(text) : BraceDepth(text, b, j) = 0}
        c == CHOOSE j \in closes : \A m \in closes : j <= m
        from == CHOOSE t \in 1..Len(text) :
                   text[t].k = "colors" /\ SkipSpace(text, t) + 1 = b
    IN IF b = 0 \/ closes = {} THEN [from |-> 0, to |-> 0]
       ELSE [from |-> from,
             to |-> IF KindAt(text, c + 1) = "comma" THEN c + 1 ELSE c]

\* The known tokens to which the mode gives a string, in the fixed order.
KnownTokens(d) ==
    SelectSeq(ColorOrder, LAMBDA k : k \in DOMAIN d /\ d[k].str)

\* One mode of the new block: a line per known token, nothing else.
ModeLines(name, d) ==
    LET known == KnownTokens(d)
        line(i) == <<Ws(10), Tok("entry", <<known[i], d[known[i]].s>>, 0)>>
                   \o (IF i < Len(known) THEN <<Nl>> ELSE <<>>)
        RECURSIVE lines(_)
        lines(i) == IF i > Len(known) THEN <<>> ELSE line(i) \o lines(i + 1)
    IN <<Ws(8), Tok("mode", <<name>>, 0), Ws(1), T("lbrace"), Nl>>
       \o lines(1) \o <<Nl, Ws(8), T("rbrace"), T("comma"), Nl>>

\* The block a scheme asks for.
ExpectedColorsBlock(colors) ==
    <<Ws(6), T("colors"), Ws(1), T("lbrace"), Nl>>
    \o ModeLines("lightMode", GetMode(colors, "lightMode"))
    \o ModeLines("darkMode", GetMode(colors, "darkMode"))
    \o <<Ws(6), T("rbrace"), T("comma")>>

(* C21: on an artifact with a colours block, the call replaces the span    *)
(* from the word colors to the closing brace at the same nesting depth     *)
(* (and the comma after it): the text before and after the span is as it   *)
(* was, and the new block lists for each mode the known tokens the scheme  *)
(* gives, in the fixed order, and no other token.                          *)
C21_ThemeColours ==
    (lastOp = "apply_color_scheme_to_quartz_config"
        /\ ColorsSpan(diskBefore).from # 0) =>
        disk = Canon(Slice(diskBefore, 1, ColorsSpan(diskBefore).from - 1)
                     \o ExpectedColorsBlock(lastArg.colors)
                     \o Slice(diskBefore, ColorsSpan(diskBefore).to + 1, Len(diskBefore)))

\* A scheme with an unknown token, a value that is no string and no dark
\* mode replaced a colours block with nested braces.
C21_Witness ==
    /\ lastOp = "apply_color_scheme_to_quartz_config"
    /\ ColorsSpan(diskBefore).from # 0
    /\ \E j \in ColorsSpan(diskBefore).from..ColorsSpan(diskBefore).to :
          diskBefore[j].k = "mode"
    /\ "accent" \in DOMAIN GetMode(lastArg.colors, "lightMode")
    /\ "darkMode" \notin DOMAIN lastArg.colors
    /\ \E j \in 1..Len(disk) : disk[j].k = "entry" /\ disk[j].v[1] = "secondary"


(***************************************************************************)
(* The reading-time options after patch_content_meta_options (SpecPatch)   *)
(***************************************************************************)
\* The values the defaultOptions declaration of the text gives to the
\* option: the literals after the option's name between the declaration's
\* head and its "}".
DefaultsValues(text, name) ==
    LET head == FirstAfter(text, 0, "defaultOptions")
        tail == FirstAfter(text, head, "rbrace")
    IN {text[SkipSpace(text, j) + 1].v[1] :
           j \in {m \in (head + 1)..(tail - 1) :
                     /\ text[m].k = "opt" /\ text[m].v = <<name>>
                     /\ KindAt(text, SkipSpace(text, m) + 1) = "bool"}}

HasDefaults(text) ==
    /\ FirstAfter(text, 0, "defaultOptions") # 0
    /\ DefaultsValues(text, "showReadingTime") # {}
    /\ DefaultsValues(text, "showComma") # {}

(* C22: after the reading-time patch of a build, showReadingTime and       *)
(* showComma of the defaultOptions declaration both hold the               *)
(* configuration's show_reading_time, false when the configuration has no  *)
(* such key, whatever they held before.                                    *)
C22_ReadingTimeDisplay ==
    (lastOp = "patch_content_meta_options" /\ HasDefaults(diskBefore)) =>
        /\ DefaultsValues(disk, "showReadingTime") = {lastArg.configured = "true"}
        /\ DefaultsValues(disk, "showComma") = {lastArg.configured = "true"}

\* A build turned both options off for a configuration without the key,
\* from a declaration whose two options differed.
C22_Witness ==
    /\ lastOp = "patch_content_meta_options"
    /\ lastArg.configured = "absent"
    /\ DefaultsValues(diskBefore, "showReadingTime") = {TRUE}
    /\ DefaultsValues(diskBefore, "showComma") = {FALSE}
    /\ DefaultsValues(disk, "showComma") = {FALSE}
    /\ DefaultsValues(disk, "showReadingTime") = {FALSE}


(***************************************************************************)
(* quartz.config.ts after toggle_custom_og_images (SpecPatch)              *)
(***************************************************************************)
\* The lines of the text that hold the plugin invocation.
PluginLines(text) == {i \in 1..Len(Lines(text)) : HasKind(Lines(text)[i], "plugin")}

\* The plugin invocation of the text is not commented out.
PluginEnabled(text) ==
    \A i \in PluginLines(text) : ~StartsWithSlashes(Lines(text)[i])

\* Disabling, then enabling.
DisableEnable(text) ==
    Canon(toggle_custom_og_images(Canon(toggle_custom_og_images(text, FALSE)), TRUE))

\* After a call the plugin line is commented exactly when enable is false,
\* and every line without the plugin is as it was.
ToggledAsAsked ==
    lastOp = "toggle_custom_og_images" =>
        /\ PluginLines(disk) = PluginLines(diskBefore)
        /\ Len(Lines(disk)) = Len(Lines(diskBefore))
        /\ \A i \in PluginLines(disk) :
              StartsWithSlashes(Lines(disk)[i]) <=> ~lastArg.enable
        /\ \A i \in 1..Len(Lines(disk)) :
              i \notin PluginLines(disk) => Lines(disk)[i] = Lines(diskBefore)[i]

(* C23, as amended: after toggle_custom_og_images(enable) the line of the  *)
(* plugin invocation is uncommented when enable is true and commented when *)
(* it is false, every other line is unchanged, and disabling then enabling *)
(* restores an artifact whose plugin line was not commented out.           *)
C23_SocialPreviewToggle ==
    /\ ToggledAsAsked
    /\ (artifact = "quartz.config.ts" /\ PluginEnabled(disk)) => DisableEnable(disk) = disk

(* C23, as stated: the same, with disabling then enabling restoring every  *)
(* artifact.                                                               *)
C23_AsStated ==
    /\ ToggledAsAsked
    /\ artifact = "quartz.config.ts" => DisableEnable(disk) = disk

\* A call disabled the previews on an artifact whose plugin line was
\* active, beside other lines, and the round trip brings the line back.
C23_Witness ==
    /\ lastOp = "toggle_custom_og_images"
    /\ ~lastArg.enable
    /\ PluginLines(diskBefore) # {}
    /\ PluginEnabled(diskBefore)
    /\ ~PluginEnabled(disk)
    /\ DisableEnable(diskBefore) = diskBefore

(***************************************************************************)
(* inject_custom_footer_components on quartz.layout.ts and Footer.tsx      *)
(* (SpecFooter).  A text is a sequence of tokens; footer_html is a         *)
(* sequence of tokens of its own: plain text, a backtick, a backslash      *)
(* followed by a letter (\d), a backslash followed by a digit (\1), and    *)
(* the closing tag </footer>.                                              *)
(***************************************************************************)
MaxInjections == 3

Html(s) == Tok("html", <<s>>, 0)
Backtick == T("backtick")
EscapedBacktick == T("escaped_backtick")
BackslashLetter == T("backslash_letter")
BackslashOne == T("backslash_1")
FooterEnd == T("footer_end")
\* <footer class={...}>, with the kind of class expression it holds: the
\* scaffold writes a template literal, line 484 the bare expression.
FooterStart(class) == Tok("footer_start", <<class>>, 0)
\* <div dangerouslySetInnerHTML={{ __html: `   and   ` }} />  with the
\* whitespace line 484-486 puts around them.
DivOpen == T("div_open")
DivClose == T("div_close")
\* footer: Component.Footer({   and   })   and   footer: Component.Footer()
FooterCallOpen == T("footer_call_open")
BraceParen == T("brace_paren")
FooterCallEmpty == T("footer_call_empty")

\* line 482: footer_html.replace("`", "\\`")
safe_html(html) ==
    [i \in 1..Len(html) |-> IF html[i] = Backtick THEN EscapedBacktick ELSE html[i]]

\* lines 484-486: the replacement template.
Replacement(html) ==
    <<FooterStart("expression")>> \o <<DivOpen>> \o safe_html(html) \o <<DivClose, FooterEnd>>

\* re.sub compiles the template first: a backslash followed by an ASCII
\* letter that is no known escape is an error.
TemplateRaises(template) == \E i \in 1..Len(template) : template[i] = BackslashLetter

\* The template expanded for one match: \1 becomes the text of group 1, a
\* backslash in front of a backtick stays as it is.
RECURSIVE Expand(_, _)
Expand(template, group1) ==
    IF template = <<>> THEN <<>>
    ELSE (IF Head(template) = BackslashOne THEN group1 ELSE <<Head(template)>>)
         \o Expand(Tail(template), group1)

\* lines 488-493: every match of <footer class=\{.*?\}>(.*?)</footer> from
\* position i on is replaced; a match runs from a footer start to the first
\* </footer> after it.
RECURSIVE SubFooter(_, _, _)
SubFooter(code, i, template) ==
    IF i > Len(code) THEN <<>>
    ELSE IF code[i].k = "footer_start" /\ FirstAfter(code, i + 1, "footer_end") # 0
         THEN LET e == FirstAfter(code, i + 1, "footer_end")
              IN Expand(template, Slice(code, i + 1, e - 1)) \o SubFooter(code, e + 1, template)
         ELSE <<code[i]>> \o SubFooter(code, i + 1, template)

\* lines 458-462: every match of footer:\s*Component\.Footer\(\{[\s\S]*?\}\)
\* becomes the call without arguments.
RECURSIVE SubLayout(_, _)
SubLayout(text, i) ==
    IF i > Len(text) THEN <<>>
    ELSE IF text[i] = FooterCallOpen /\ FirstAfter(text, i + 1, "brace_paren") # 0
         THEN <<FooterCallEmpty>> \o SubLayout(text, FirstAfter(text, i + 1, "brace_paren") + 1)
         ELSE <<text[i]>> \o SubLayout(text, i + 1)

Absent == [exists |-> FALSE, text |-> <<>>]
File(text) == [exists |-> TRUE, text |-> text]

\* lines 454-475: the layout part.
InjectLayout(f) == IF f.exists THEN File(SubLayout(f.text, 1)) ELSE f

\* lines 477-506: the Footer.tsx part, where re.sub does not raise.
InjectFooter(f, html) ==
    IF f.exists THEN File(SubFooter(f.text, 1, Replacement(html))) ELSE f

\* The footer of a Quartz scaffold, and the layout with its footer links.
PristineFooter ==
    <<Code("return"), FooterStart("template literal"), Code("createdWith"),
      Code("links"), FooterEnd, Code("export")>>
PristineLayout ==
    <<Code("sharedPageComponents"), FooterCallOpen, Code("links"), T("close"), T("comma"),
      BraceParen, T("comma"), Code("defaultContentPageLayout")>>

LayoutFiles ==
    {File(PristineLayout),
     File(<<Code("sharedPageComponents"), FooterCallEmpty, T("comma")>>),
     Absent}
FooterFiles == {File(PristineFooter), Absent}

FooterHtmls ==
    {<<Html("<p>ok</p>")>>,
     <<Html("a"), Backtick, Html("b"), Backtick>>,
     <<Html("C:"), BackslashLetter, Html("ata")>>,
     <<Html("price"), BackslashOne>>,
     <<Html("<footer>mine"), FooterEnd>>}

InitFooter ==
    /\ layoutFile \in LayoutFiles
    /\ footerFile \in FooterFiles
    /\ footerBefore = [layout |-> layoutFile, footer |-> footerFile]
    /\ footer_html = <<>>
    /\ footerOutcome = "none"
    /\ injections = 0
    /\ FmIdle
    /\ MergeIdle
    /\ PatchIdle
    /\ SetupIdle
    /\ EmojiIdle
    /\ BuildIdle
    /\ SectionsIdle
    /\ BackupIdle

\* inject_custom_footer_components(quartz_layout_path, footer_component_path,
\* footer_html): the layout is written before Footer.tsx is read, so an
\* error of re.sub leaves the layout rewritten and Footer.tsx as it was.
InjectCustomFooterComponents(html) ==
    /\ injections < MaxInjections
    /\ injections' = injections + 1
    /\ footer_html' = html
    /\ footerBefore' = [layout |-> layoutFile, footer |-> footerFile]
    /\ layoutFile' = InjectLayout(layoutFile)
    /\ IF footerFile.exists /\ TemplateRaises(Replacement(html))
          THEN footerOutcome' = "raised" /\ footerFile' = footerFile
          ELSE footerOutcome' = "returned" /\ footerFile' = InjectFooter(footerFile, html)
    /\ UNCHANGED <<fmVars, mergeVars, patchVars, setupVars, emojiVars, buildVars, sectionsVars, backupVars>>

NextFooter == \E html \in FooterHtmls : InjectCustomFooterComponents(html)

SpecFooter == InitFooter /\ [][NextFooter]_vars

\* The positions of the footer elements of a text, and the text inside the
\* element that starts at i.
FooterElements(code) == {i \in 1..Len(code) : code[i].k = "footer_start"}
InsideFooter(code, i) == Slice(code, i + 1, FirstAfter(code, i + 1, "footer_end") - 1)

\* The layout calls the footer without arguments.
ZeroArgumentFooter(f) == \A i \in 1..Len(f.text) : f.text[i] # FooterCallOpen

\* Footer.tsx holds one footer element, around footer_html with its
\* backticks escaped and nothing else changed.
HoldsConfiguredHtml(f, html) ==
    /\ Cardinality(FooterElements(f.text)) = 1
    /\ \A i \in FooterElements(f.text) :
          InsideFooter(f.text, i) = <<DivOpen>> \o safe_html(html) \o <<DivClose>>
    /\ Cardinality({i \in 1..Len(f.text) : f.text[i] = FooterEnd}) = 1

\* The same call once more leaves both files as they are.
SameHtmlAgain ==
    /\ InjectLayout(layoutFile) = layoutFile
    /\ ~TemplateRaises(Replacement(footer_html))
    /\ InjectFooter(footerFile, footer_html) = footerFile

(* C24: for any footer HTML string, after inject_custom_footer_components  *)
(* the layout uses the zero-argument footer invocation, Footer.tsx         *)
(* contains exactly one footer element whose injected HTML is the          *)
(* configured string with its backticks escaped, and injecting the same    *)
(* HTML again leaves both files byte-identical.                            *)
C24_FooterInjection ==
    (footerOutcome # "none" /\ footerBefore.layout.exists /\ footerBefore.footer.exists) =>
        /\ footerOutcome = "returned"
        /\ ZeroArgumentFooter(layoutFile)
        /\ HoldsConfiguredHtml(footerFile, footer_html)
        /\ SameHtmlAgain

\* footer_html without a backslash and without a closing footer tag.
PlainHtml(html) ==
    \A i \in 1..Len(html) : html[i] \notin {BackslashLetter, BackslashOne, FooterEnd}

\* C24 for such strings: what the claim says holds for them.
C24_PlainHtml ==
    (/\ footerOutcome # "none" /\ footerBefore.layout.exists /\ footerBefore.footer.exists
     /\ PlainHtml(footer_html)
     /\ \A i \in FooterElements(footerBefore.footer.text) :
           FirstAfter(footerBefore.footer.text, i + 1, "footer_end") # 0
     /\ Cardinality(FooterElements(footerBefore.footer.text)) = 1
     /\ Cardinality({i \in 1..Len(footerBefore.footer.text) :
                        footerBefore.footer.text[i] = FooterEnd}) = 1) =>
        /\ footerOutcome = "returned"
        /\ ZeroArgumentFooter(layoutFile)
        /\ HoldsConfiguredHtml(footerFile, footer_html)
        /\ SameHtmlAgain

(***************************************************************************)
(* prompt_section_numbers over runs of the wizard (SpecSections).  An      *)
(* entry is the typed line after entry.split(",") and strip(): a sequence  *)
(* of parts, each a sequence of characters; the blank line has one empty   *)
(* part.                                                                   *)
(***************************************************************************)
MaxCount == 3
MaxEntries == 2

BlankEntry == << <<>> >>

\* The digits that are typed, and the number a string of them writes.
DigitChars == {"0", "1", "2", "3"}
DigitOf(ch) == IF ch = "0" THEN 0 ELSE IF ch = "1" THEN 1 ELSE IF ch = "2" THEN 2 ELSE 3
RECURSIVE Decimal(_)
Decimal(str) ==
    IF str = <<>> THEN 0
    ELSE 10 * Decimal(SubSeq(str, 1, Len(str) - 1)) + DigitOf(str[Len(str)])

\* int(p) for a stripped part: an optional sign and digits, ValueError
\* otherwise.
IsInt(p) ==
    LET digits == IF p # <<>> /\ p[1] \in {"-", "+"} THEN Tail(p) ELSE p
    IN digits # <<>> /\ \A i \in 1..Len(digits) : digits[i] \in DigitChars
int(p) ==
    IF p[1] = "-" THEN 0 - Decimal(Tail(p))
    ELSE IF p[1] = "+" THEN Decimal(Tail(p))
    ELSE Decimal(p)

\* line 874: list(range(1, num_sections + 1))
Range1(n) == [i \in 1..n |-> i]

\* lines 870-874: the default list.
default_list(n, saved) == IF saved # <<>> THEN saved ELSE Range1(n)

\* len(set(nums)) != len(nums)
HasDuplicates(nums) == Cardinality({nums[i] : i \in 1..Len(nums)}) # Len(nums)

\* lines 885-899 for one entry that is not blank: the parsed list when the
\* entry is accepted, and whether it is.
Parts(entry) == SelectSeq(entry, LAMBDA p : p # <<>>)
Nums(entry) == [i \in 1..Len(Parts(entry)) |-> int(Parts(entry)[i])]
Accepted(n, entry) ==
    /\ \A i \in 1..Len(Parts(entry)) : IsInt(Parts(entry)[i])
    /\ Len(Nums(entry)) = n
    /\ ~HasDuplicates(Nums(entry))
    /\ \A i \in 1..Len(Nums(entry)) : Nums(entry)[i] > 0

\* prompt_section_numbers(num_sections, saved_config) for the entries typed
\* from the i-th on: every rejected entry asks again (the recursive calls).
\* [returned, list, at]: returned is FALSE while the prompt still waits, at
\* is the entry that ended the call.
RECURSIVE prompt_section_numbers(_, _, _, _)
prompt_section_numbers(n, saved, typed, i) ==
    IF i > Len(typed) THEN [returned |-> FALSE, list |-> <<>>, at |-> 0]
    ELSE IF typed[i] = BlankEntry
         THEN [returned |-> TRUE, list |-> default_list(n, saved), at |-> i]
    ELSE IF Accepted(n, typed[i]) THEN [returned |-> TRUE, list |-> Nums(typed[i]), at |-> i]
    ELSE prompt_section_numbers(n, saved, typed, i + 1)

\* What is typed as one part, and as one line.
TypedParts == {<<>>, <<"1">>, <<"2">>, <<"3">>, <<"0">>, <<"-", "1">>, <<"x">>}
TypedEntries ==
    {BlankEntry}
    \cup {<<p>> : p \in TypedParts \ {<<>>}}
    \cup {<<p, r>> : p \in TypedParts \ {<<"-", "1">>}, r \in TypedParts \ {<<"0">>}}
    \cup {<< <<"1">>, <<"2">>, <<"3">> >>, << <<"3">>, <<"1">>, <<"2">> >>,
          << <<"1">>, <<"2">>, <<"2">> >>, << <<"1">>, <<>>, <<"3">>, <<"2">> >>}
\* Entries typed before the last one: some count rejects each of them.
RetriedEntries ==
    {<< <<"x">>, <<"1">> >>, << <<"1">>, <<"1">> >>, << <<"0">>, <<"1">> >>,
     << <<"1">>, <<"2">> >>}
TypedRuns ==
    {<<a>> : a \in TypedEntries} \cup {<<a, b>> : a \in RetriedEntries, b \in TypedEntries}

InitSections ==
    /\ saved_section_numbers = <<>>
    /\ num_sections = 0
    /\ entries = <<>>
    /\ section_numbers = <<>>
    /\ FmIdle
    /\ MergeIdle
    /\ PatchIdle
    /\ SetupIdle
    /\ EmojiIdle
    /\ BuildIdle
    /\ FooterIdle
    /\ BackupIdle

\* One run of setup_course as far as the section numbers go: the count is
\* asked (line 1023), then the numbers (line 1024), and the list returned
\* is written to course_config.json (line 1121), where the next run finds
\* it.
SetupSectionNumbers(n, typed) ==
    /\ Len(typed) <= MaxEntries
    /\ \E r \in {prompt_section_numbers(n, saved_section_numbers, typed, 1)} :
          /\ r.returned
          /\ r.at = Len(typed)
          /\ section_numbers' = r.list
          /\ saved_section_numbers' = r.list
    /\ num_sections' = n
    /\ entries' = typed
    /\ UNCHANGED <<fmVars, mergeVars, patchVars, setupVars, emojiVars, buildVars, footerVars, backupVars>>

NextSections == \E n \in 1..MaxCount, typed \in TypedRuns : SetupSectionNumbers(n, typed)

SpecSections == InitSections /\ [][NextSections]_vars

\* A run has returned a list.
Prompted == num_sections # 0

\* The entry that ended the last run was the blank one.
EndedBlank == Prompted /\ entries[Len(entries)] = BlankEntry

UniquePositive(nums) ==
    ~HasDuplicates(nums) /\ \A i \in 1..Len(nums) : nums[i] > 0

(* C25: for any saved configuration and any sequence of answers, the list  *)
(* returned by prompt_section_numbers consists of unique positive integers *)
(* and has exactly num_sections entries, also when the prompt is left      *)
(* blank and the default of a saved configuration is returned.             *)
C25_SectionNumbers ==
    Prompted => UniquePositive(section_numbers) /\ Len(section_numbers) = num_sections

\* C25 for a list that was typed: it has num_sections unique positive
\* entries.
C25_TypedOrFresh ==
    (Prompted /\ ~EndedBlank) =>
        UniquePositive(section_numbers) /\ Len(section_numbers) = num_sections

\* Whatever is returned is a list of unique positive integers.
C25_UniquePositive == Prompted => UniquePositive(section_numbers)

(***************************************************************************)
(* base.scss after patch_internal_link_highlight (SpecPatch)               *)
(***************************************************************************)
\* The comment openers of the text.
CommentOpeners(text) == {i \in 1..Len(text) : text[i].k = "copen"}

\* The declaration of the .internal rule was commented out by the last
\* call.
CommentedOut ==
    /\ lastOp = "patch_internal_link_highlight"
    /\ CommentOpeners(disk) # {}

(* C26: after patch_internal_link_highlight has commented out the          *)
(* background-color declaration of the .internal rule, applying it again   *)
(* finds the declaration already commented out, reports no change and      *)
(* leaves base.scss byte-identical: comments are not nested or duplicated. *)
C26_HighlightIdempotent ==
    CommentedOut =>
        /\ patch_internal_link_highlight(disk).no_change
        /\ Canon(patch_internal_link_highlight(disk).text) = disk
        /\ Cardinality(CommentOpeners(disk)) = 1

\* The patch leaves alone a file whose .internal rule does not hold the
\* declaration, and every rule other than .internal.
C26_OtherRules ==
    lastOp = "patch_internal_link_highlight" =>
        /\ (\A i \in 1..Len(diskBefore) :
               diskBefore[i].k = "internal" => HighlightInRule(diskBefore, i) = 0)
           => (disk = diskBefore /\ ~reported)
        /\ \A i \in 1..Len(disk) :
              (disk[i].k = "highlight" /\ KindAt(disk, i - 2) # "copen")
                  => \E j \in 1..Len(diskBefore) :
                        /\ diskBefore[j].k = "highlight"
                        /\ Slice(diskBefore, j, Len(diskBefore)) = Slice(disk, i, Len(disk))

(***************************************************************************)
(* The backup of setup_course (SpecBackup).  A file of the course folder   *)
(* is its path relative to the folder, a sequence of names.                *)
(***************************************************************************)
BACKUP_DEFAULT_EXCLUDES ==
    {"node_modules", ".git", ".quartz-cache", ".cache", "dist", "build", "out",
     ".DS_Store", "__pycache__", ".merged_output"}

Folder0(files) == [exists |-> TRUE, files |-> files]
NoFolder == [exists |-> FALSE, files |-> {}]
NoZip == [written |-> FALSE, files |-> {}]

\* _iter_nonempty(p).  A folder holds an entry when it holds a file, below
\* it or deeper.
_iter_nonempty(p) == p.exists /\ p.files # {}

\* Mutant: only the name of the file is compared with the excludes.
ArchivedByName(files) ==
    {f \in files : f[Len(f)] \notin BACKUP_DEFAULT_EXCLUDES}

\* lines 83-98: os.walk with the excluded directories pruned and the
\* excluded file names skipped.
Archived(files) ==
    {f \in files : \A i \in 1..Len(f) : f[i] \notin BACKUP_DEFAULT_EXCLUDES}

\* backup_existing_course_dir(course_dir, backup_root) where nothing
\* raises: the archive, NoZip for the None it returns.
backup_existing_course_dir(p) ==
    IF ~_iter_nonempty(p) THEN NoZip
    ELSE [written |-> TRUE, files |-> Archived(p.files)]

\* What the teacher, a build or the operating system leaves in the folder.
TeacherFiles ==
    {<<"Notes.md">>, <<"section1", ".DS_Store">>, <<"node_modules", "x.js">>,
     <<".merged_output", "section1", "index.html">>}
\* What a run of the wizard leaves in it.
MediaKeep == <<"Media", ".gitkeep">>
ConfigFile == <<"course_config.json">>

InitBackup ==
    /\ course_path \in {NoFolder} \cup {Folder0(fs) : fs \in SUBSET TeacherFiles}
    /\ at_start = course_path
    /\ zip_file = NoZip
    /\ no_backup = FALSE
    /\ position = "idle"
    /\ mutated = FALSE
    /\ backup_warning = FALSE
    /\ FmIdle
    /\ MergeIdle
    /\ PatchIdle
    /\ SetupIdle
    /\ EmojiIdle
    /\ BuildIdle
    /\ FooterIdle
    /\ SectionsIdle

Others == <<fmVars, mergeVars, patchVars, setupVars, emojiVars, buildVars, footerVars, sectionsVars>>

\* Between runs: a file appears in the folder or disappears from it.
EditFolder ==
    /\ position = "idle"
    /\ course_path.exists
    /\ \E f \in TeacherFiles :
          course_path' = Folder0(IF f \in course_path.files
                                 THEN course_path.files \ {f}
                                 ELSE course_path.files \cup {f})
    /\ at_start' = course_path'
    /\ zip_file' = NoZip
    /\ no_backup' = FALSE
    /\ mutated' = FALSE
    /\ backup_warning' = FALSE
    /\ UNCHANGED position
    /\ UNCHANGED Others

\* setup_course(no_backup) up to line 974: the course code is known.
StartSetup(flag) ==
    /\ position = "idle"
    /\ position' = "backup"
    /\ no_backup' = flag
    /\ at_start' = course_path
    /\ zip_file' = NoZip
    /\ mutated' = FALSE
    /\ backup_warning' = FALSE
    /\ UNCHANGED course_path
    /\ UNCHANGED Others

\* lines 976-983.  Writing the archive can raise (the _backups folder
\* cannot be created, a file of the course cannot be read, the disk is
\* full); the handler prints the warning and the run goes on.
BackupStep(raises) ==
    /\ position = "backup"
    /\ position' = "mkdir"
    /\ IF course_path.exists /\ ~no_backup
          THEN IF raises /\ _iter_nonempty(course_path)
                  THEN backup_warning' = TRUE /\ zip_file' = NoZip
                  ELSE backup_warning' = FALSE
                       /\ zip_file' = backup_existing_course_dir(course_path)
          ELSE UNCHANGED <<backup_warning, zip_file>>
    /\ UNCHANGED <<course_path, at_start, no_backup, mutated>>
    /\ UNCHANGED Others

\* line 986: course_path.mkdir(parents=True, exist_ok=True)
MkdirStep ==
    /\ position = "mkdir"
    /\ position' = "media"
    /\ course_path' = Folder0(course_path.files)
    /\ mutated' = ~course_path.exists
    /\ UNCHANGED <<at_start, zip_file, no_backup, backup_warning>>
    /\ UNCHANGED Others

\* lines 989-995: the Media folder and its .gitkeep.
MediaStep ==
    /\ position = "media"
    /\ position' = "rest"
    /\ course_path' = Folder0(course_path.files \cup {MediaKeep})
    /\ mutated' = TRUE
    /\ UNCHANGED <<at_start, zip_file, no_backup, backup_warning>>
    /\ UNCHANGED Others

\* from line 1005 on: the Obsidian defaults, the folders of the sections
\* and course_config.json.
RestOfSetup ==
    /\ position = "rest"
    /\ position' = "idle"
    /\ course_path' = Folder0(course_path.files \cup {ConfigFile})
    /\ mutated' = TRUE
    /\ UNCHANGED <<at_start, zip_file, no_backup, backup_warning>>
    /\ UNCHANGED Others

NextBackup ==
    \/ EditFolder
    \/ \E flag \in BOOLEAN : StartSetup(flag)
    \/ \E raises \in BOOLEAN : BackupStep(raises)
    \/ MkdirStep
    \/ MediaStep
    \/ RestOfSetup

SpecBackup == InitBackup /\ [][NextBackup]_vars

\* The archive holds the files of the folder as the run found it, without
\* those under an excluded name.
ArchiveOfStart ==
    /\ zip_file.written
    /\ \A f \in at_start.files :
          f \in zip_file.files <=> ~\E i \in 1..Len(f) : f[i] \in BACKUP_DEFAULT_EXCLUDES
    /\ zip_file.files \subseteq at_start.files

\* A run is under way or has ended, and found the folder with an entry.
BackupDue == position # "backup" /\ _iter_nonempty(at_start) /\ ~no_backup

SourcesAsWritten ==
    /\ \A p \in DOMAIN courseDir : courseDir[p] = SourceFile("course", p)
    /\ \A p \in DOMAIN sectionDir : sectionDir[p] = SourceFile("section", p)

IsKeyOfASection(key) == IsSectionQualified(key) /\ key.rest = ""

Canonical == {PlainKey("draft"), PlainKey("created")}

\* The canonical field `plain` is as it was when the document had no key
\* `qualified` for the target section.
CanonicalKept(plain, qualified) ==
    qualified \notin DOMAIN fmBefore.meta =>
        /\ plain \in DOMAIN fmFile.meta <=> plain \in DOMAIN fmBefore.meta
        /\ plain \in DOMAIN fmFile.meta => fmFile.meta[plain] = fmBefore.meta[plain]

\* Rewriting the rewritten document once more, for any section, changes no
\* metadata value.
RewrittenIsStable ==
    \A m \in Sections : process_frontmatter(fmPath, fmFile, m).meta = fmFile.meta

(* C29: when a document has no draftSection<N> (createdSection<N>) key for *)
(* the target section N, process_frontmatter leaves an existing canonical  *)
(* draft (created) value and every other metadata key unchanged while      *)
(* still removing the other sections' keys; and rewriting an already       *)
(* rewritten document for any section changes no metadata value.           *)
C29_FrontmatterFrame ==
    FmRewritten =>
        /\ CanonicalKept(PlainKey("draft"), draft_key(fmSection))
        /\ CanonicalKept(PlainKey("created"), created_key(fmSection))
        /\ \A k \in DOMAIN fmBefore.meta :
              (~IsKeyOfASection(k) /\ k \notin Canonical) =>
                  k \in DOMAIN fmFile.meta /\ fmFile.meta[k] = fmBefore.meta[k]
        /\ DOMAIN fmFile.meta \subseteq DOMAIN fmBefore.meta \cup Canonical
        /\ \A k \in DOMAIN fmFile.meta : ~IsKeyOfASection(k)
        /\ RewrittenIsStable

\* C29 where "every other key" is every key that does not start with
\* draftSection<digits> or createdSection<digits>.
C29_KeysOutsideThePattern ==
    FmRewritten =>
        /\ CanonicalKept(PlainKey("draft"), draft_key(fmSection))
        /\ CanonicalKept(PlainKey("created"), created_key(fmSection))
        /\ \A k \in DOMAIN fmBefore.meta :
              (~IsSectionQualified(k) /\ k \notin Canonical) =>
                  k \in DOMAIN fmFile.meta /\ fmFile.meta[k] = fmBefore.meta[k]
        /\ DOMAIN fmFile.meta \subseteq DOMAIN fmBefore.meta \cup Canonical
        /\ \A k \in DOMAIN fmFile.meta : ~IsSectionQualified(k)
        /\ RewrittenIsStable

(***************************************************************************)
(* The scaffold a reusing build finds (SpecBuild)                          *)
(***************************************************************************)
\* The scaffold was copied in full and carries every scaffold-lifetime
\* patch: the ten fixed ones, and the fonts the configuration selected when
\* the scaffold was installed.
ScaffoldComplete(q) ==
    /\ q # NoScaffold
    /\ q.patched = {LifetimePatches[i] : i \in 1..Len(LifetimePatches)}

\* The last call took the else-branch of line 1073: the output directory
\* was there and full_rebuild was not set.
TookReusePath ==
    /\ outcome \in {"completed", "raised"}
    /\ ~Reinstalled

(* C30: across any sequence of build_section_site invocations for one      *)
(* section, an invocation interrupted between the creation of the output   *)
(* directory and the end of the scaffold copy and patches included, every  *)
(* build that takes the reuse path works on a scaffold that was copied     *)
(* completely and carries every scaffold-lifetime patch.                   *)
C30_ReuseFindsCompleteScaffold ==
    TookReusePath => ScaffoldComplete(quartz)

\* A call that went through the scaffold branch to its end leaves a complete
\* scaffold: the reuse path finds one unless a call was interrupted.
C30_InstallCompletes ==
    (CompletedCleanly /\ Reinstalled) => ScaffoldComplete(quartz)

=============================================================================
